---- MODULE Spec2Model ----
(***************************************************************************)
(* Verification model of the Audion plugin runtime: the event bus          *)
(* (EventEmitter), the UI slot manager (UISlotManager), the per-plugin     *)
(* storage (PluginStorage) and the plugin store (createPluginStore).       *)
(* Each component has its own specification over the shared variables;     *)
(* a component's specification leaves the other components' variables      *)
(* unchanged.                                                              *)
(***************************************************************************)
EXTENDS Integers, Sequences, FiniteSets, TLC

(***************************************************************************)
(* Generic helpers: JavaScript Map as a function with a varying domain,    *)
(* arrays as sequences.                                                    *)
(***************************************************************************)
EmptyMap == [k \in {} |-> 0]

MapHas(m, k) == k \in DOMAIN m

MapSet(m, k, v) == [x \in (DOMAIN m) \cup {k} |-> IF x = k THEN v ELSE m[x]]

MapDelete(m, k) == [x \in (DOMAIN m) \ {k} |-> m[x]]

Range(s) == {s[i] : i \in DOMAIN s}

Contains(s, x) == \E i \in DOMAIN s : s[i] = x

\* Array.prototype.filter with the predicate given as the set of kept values
SeqFilterIn(s, keep) == SelectSeq(s, LAMBDA x : x \in keep)

\* Set.prototype.delete on an insertion-ordered set
SeqRemove(s, x) == SelectSeq(s, LAMBDA y : y # x)

\* Set.prototype.add on an insertion-ordered set
SetAdd(s, x) == IF Contains(s, x) THEN s ELSE Append(s, x)

None == "none"

(***************************************************************************)
(* Bounds of the model                                                     *)
(***************************************************************************)
MaxRegistered == 3
MaxData == 1
MaxPending == 1
MaxClones == 4
QuotaBytes == 100
MaxVersion == 2
MaxTasks == 2
MaxCalls == 2
MaxTime == 4
MaxFetches == 2
MaxBatches == 1
MaxFetchId == 3

\* marketplace.ts: CACHE_TTL (5 minutes) in ticks of the clock, MAX_CACHE_SIZE (100) scaled
CACHE_TTL == 2
MAX_CACHE_SIZE == 2

VARIABLES
    \* EventEmitter (src/unnamed/part_004)
    listeners,        \* Map<event, Set<listener>>, each set in insertion order
    listenerOwners,   \* Map<listener, pluginName>
    onceWrappers,     \* closures created by once(): wrapper -> [event, inner]
    busOp,            \* the last bus operation, with what it observed
    requestHandlers,  \* Map<requestName, handler>
    pendingRequests,  \* request() promises not yet settled
    lastRegistered,   \* history: per request name, the handler last passed to handleRequest
    replacedHandler,  \* history: per request name, the handler the last one replaced
    reqOp,            \* the last request operation, with what it observed
    \* UISlotManager (src/unnamed/part_003)
    slots,            \* Map<slotName, UISlotContent[]>
    containers,       \* the slots whose container is registered
    shadow,           \* per slot, the child nodes of its container's shadow root
    mirrorElements,   \* Map<key, {slot, element}[]>
    slotOp,           \* the last slot-manager operation, with what it observed
    \* PluginStorage (src/src/lib/plugins/plugin-storage.ts)
    backend,          \* the backing store behind plugin_save_data: <<plugin, key>> -> string
    localStorage,     \* the browser's localStorage: storage key -> string
    batches,          \* setBatch and importData calls suspended at an await
    storOp,           \* the last storage operation, with what it observed
    \* plugin store (src/unnamed/part_002)
    backendPlugins,   \* the plugin directory behind list_plugins, install_plugin, ...
    installed,        \* state.installed: PluginInfo[]
    loading,          \* state.loading
    error,            \* state.error: the critical error, or none
    failedPlugins,    \* state.failedPlugins: PluginError[]
    pendingUpdates,   \* state.pendingUpdates
    runtime,          \* the store's runtime variable: none until init creates it
    rtPlugins,        \* the runtime's loaded plugin handles
    pmGranted,        \* the permission manager: plugin name -> granted permissions
    tasks,            \* the store's asynchronous calls suspended at an await
    calls,            \* how many store operations the user has started
    loadOp,           \* the last runtime.loadPlugin that settled, with what it observed
    storeOp,          \* the last store step, with what it observed
    \* PluginCache and fetchCommunityPlugin (src/src/lib/plugins/marketplace.ts)
    cache,            \* Map<url, {data, timestamp}> in insertion order
    now,              \* Date.now(), in ticks
    fetches,          \* fetchCommunityPlugin calls waiting for their response
    cacheOp,          \* the last cache operation, with what it observed
    \* lyrics store (src/src/lib/stores/lyrics.ts)
    currentTrack,     \* the player's currentTrack store: a track, or none
    currentFetchId,   \* the module's request counter
    lyricsData,       \* the lyricsData store
    lyricsLoading,    \* the lyricsLoading store
    lyricsError,      \* the lyricsError store: a message, or none
    unsubscribe,      \* TRUE while initLyricsSync's subscription is held
    lrcFiles,         \* the tracks that have an LRC file behind load_lrc_file
    lyricsFetches,    \* fetchLyricsForTrack and cache-clearing calls suspended at an await
    lyricsOp          \* the last lyrics step, with what it observed

busVars == <<listeners, listenerOwners, onceWrappers, busOp>>
reqVars == <<requestHandlers, pendingRequests, lastRegistered, replacedHandler, reqOp>>
slotVars == <<slots, containers, shadow, mirrorElements, slotOp>>
storVars == <<backend, localStorage, batches, storOp>>
storeVars == <<backendPlugins, installed, loading, error, failedPlugins, pendingUpdates,
               runtime, rtPlugins, pmGranted, tasks, calls, loadOp, storeOp>>
cacheVars == <<cache, now, fetches, cacheOp>>
lyricsVars == <<currentTrack, currentFetchId, lyricsData, lyricsLoading, lyricsError,
                unsubscribe, lrcFiles, lyricsFetches, lyricsOp>>
vars == <<busVars, reqVars, slotVars, storVars, storeVars, cacheVars, lyricsVars>>

otherThanBus == <<reqVars, slotVars, storVars, storeVars, cacheVars, lyricsVars>>
otherThanReq == <<busVars, slotVars, storVars, storeVars, cacheVars, lyricsVars>>
otherThanSlots == <<busVars, reqVars, storVars, storeVars, cacheVars, lyricsVars>>
otherThanStorage == <<busVars, reqVars, slotVars, storeVars, cacheVars, lyricsVars>>
otherThanCache == <<busVars, reqVars, slotVars, storVars, storeVars, lyricsVars>>
otherThanLyrics == <<busVars, reqVars, slotVars, storVars, storeVars, cacheVars>>
\* a store step leaves these alone; bus and slot manager change when it unloads
otherThanStore == <<reqVars, storVars, cacheVars, lyricsVars>>

(***************************************************************************)
(* EventEmitter: listeners                                                 *)
(***************************************************************************)
Events == {"trackChange", "playStateChange"}
PluginTags == {"A", "B"}

\* Listener functions handed to the bus: <<"fn", i>>. A plugin's context
\* passes the plugin's own name as the tag of its callbacks; the host passes
\* no tag.
Fns == {<<"fn", 1>>, <<"fn", 2>>, <<"fn", 3>>}
FnTag(f) == IF f[2] = 1 THEN "A" ELSE IF f[2] = 2 THEN "B" ELSE None
\* Listener functions that throw when invoked
Throws(f) == f[2] = 2
\* Listener functions that emit the event they are handed, with a flag that
\* keeps the nested invocation of themselves from emitting again
Reemits(f) == f[2] = 3

OnceIds == {<<"once", 1>>, <<"once", 2>>}

\* the number of (event, listener) registrations
RECURSIVE Registered(_)
Registered(ls) ==
    IF DOMAIN ls = {} THEN 0
    ELSE LET e == CHOOSE x \in DOMAIN ls : TRUE
         IN Len(ls[e]) + Registered(MapDelete(ls, e))

InitBus ==
    /\ listeners = EmptyMap
    /\ listenerOwners = EmptyMap
    /\ onceWrappers = EmptyMap
    /\ busOp = [op |-> "new"]

\* this.listeners.get(event), as an insertion-ordered sequence
ListenersOf(ls, event) == IF MapHas(ls, event) THEN ls[event] ELSE << >>

\* on(event, listener, pluginName?) on the pair of maps
OnMaps(ls, owners, event, listener, tag) ==
    LET withKey == IF MapHas(ls, event) THEN ls ELSE MapSet(ls, event, << >>)
        added == MapSet(withKey, event, SetAdd(withKey[event], listener))
    IN [listeners |-> added,
        owners |-> IF tag # None THEN MapSet(owners, listener, tag) ELSE owners]

\* faulty variant: off that leaves the ownership entry of the listener
OffMapsKeepOwner(ls, owners, event, listener) ==
    IF MapHas(ls, event)
    THEN LET rest == SeqRemove(ls[event], listener)
         IN [listeners |-> IF rest = << >> THEN MapDelete(ls, event)
                           ELSE MapSet(ls, event, rest),
             owners |-> owners]
    ELSE [listeners |-> ls, owners |-> owners]

\* off(event, listener) on the pair of maps
OffMaps(ls, owners, event, listener) ==
    IF MapHas(ls, event)
    THEN LET rest == SeqRemove(ls[event], listener)
         IN [listeners |-> IF rest = << >> THEN MapDelete(ls, event)
                           ELSE MapSet(ls, event, rest),
             owners |-> MapDelete(owners, listener)]
    ELSE [listeners |-> ls, owners |-> owners]

On(event, listener) ==
    /\ Registered(listeners) < MaxRegistered
    /\ LET r == OnMaps(listeners, listenerOwners, event, listener, FnTag(listener))
       IN /\ listeners' = r.listeners
          /\ listenerOwners' = r.owners
          /\ busOp' = [op |-> "on"]
          /\ UNCHANGED onceWrappers
          /\ UNCHANGED otherThanBus

Off(event, listener) ==
    LET r == OffMaps(listeners, listenerOwners, event, listener)
    IN /\ listeners' = r.listeners
       /\ listenerOwners' = r.owners
       /\ busOp' = [op |-> "off"]
       /\ UNCHANGED otherThanBus
       /\ onceWrappers' = [w \in {x \in DOMAIN onceWrappers :
                                    \E e \in DOMAIN r.listeners : Contains(r.listeners[e], x)}
                              |-> onceWrappers[w]]

\* once(event, listener, pluginName?): a new wrapper closure is registered
Once(event, inner) ==
    /\ Registered(listeners) < MaxRegistered
    /\ \E w \in OnceIds : ~MapHas(onceWrappers, w)
    /\ LET w == CHOOSE x \in OnceIds :
                  /\ ~MapHas(onceWrappers, x)
                  /\ \A y \in OnceIds : ~MapHas(onceWrappers, y) => x[2] <= y[2]
           r == OnMaps(listeners, listenerOwners, event, w, FnTag(inner))
       IN /\ listeners' = r.listeners
          /\ listenerOwners' = r.owners
          /\ onceWrappers' = MapSet(onceWrappers, w, [event |-> event, inner |-> inner])
          /\ busOp' = [op |-> "once"]
          /\ UNCHANGED otherThanBus

\* emit(event, data): Set.forEach visits the listeners in insertion order and
\* skips one that was deleted before its turn; an exception is caught per
\* listener. st holds the maps and the log of the invocations made so far.
RECURSIVE EmitFrom(_, _, _, _)

\* listener(data): the invocation is logged; a listener that re-emits runs a
\* nested emit of the event, unless it is already running
CallListener(inner, via, st, event, depth) ==
    LET logged == [st EXCEPT !.log = Append(@,
                       [called |-> inner, via |-> via, threw |-> Throws(inner),
                        depth |-> depth,
                        registered |-> Contains(ListenersOf(st.listeners, event), via)])]
    IN IF Reemits(inner) /\ depth = 0
       THEN EmitFrom(ListenersOf(logged.listeners, event), logged, event, 1)
       ELSE logged

\* faulty variant: the wrapped listener runs before the wrapper unregisters
OnceWrapperCallFirst(w, st, event, depth) ==
    LET called == CallListener(st.wrappers[w].inner, w, st, event, depth)
        r == OffMaps(called.listeners, called.owners, event, w)
    IN [called EXCEPT !.listeners = r.listeners, !.owners = r.owners,
                      !.wrappers = MapDelete(@, w)]

\* onceWrapper(data): this.off(event, onceWrapper), then listener(data)
OnceWrapper(w, st, event, depth) ==
    LET r == OffMaps(st.listeners, st.owners, event, w)
        unregistered == [st EXCEPT !.listeners = r.listeners, !.owners = r.owners,
                                   !.wrappers = MapDelete(@, w)]
    IN CallListener(st.wrappers[w].inner, w, unregistered, event, depth)

\* faulty variant: the error of a throwing listener leaves the forEach
UncaughtWhenThrown(inner) == Throws(inner)

\* whether an error thrown by a listener leaves the forEach callback: the
\* try/catch around listener(data) catches every one
Uncaught(inner) == FALSE

EmitFrom(todo, st, event, depth) ==
    IF todo = << >>
    THEN st
    ELSE LET l == Head(todo)
         IN IF ~Contains(ListenersOf(st.listeners, event), l)
            THEN EmitFrom(Tail(todo), st, event, depth)
            ELSE LET inner == IF l \in OnceIds THEN st.wrappers[l].inner ELSE l
                     after == IF l \in OnceIds
                              THEN OnceWrapper(l, st, event, depth)
                              ELSE CallListener(l, l, st, event, depth)
                 IN IF Uncaught(inner)
                    THEN after
                    ELSE EmitFrom(Tail(todo), after, event, depth)

Emit(event) ==
    LET r == EmitFrom(ListenersOf(listeners, event),
                      [listeners |-> listeners, owners |-> listenerOwners,
                       wrappers |-> onceWrappers, log |-> << >>],
                      event, 0)
    IN /\ listeners' = r.listeners
       /\ listenerOwners' = r.owners
       /\ onceWrappers' = r.wrappers
       /\ busOp' = [op |-> "emit", event |-> event, log |-> r.log,
                    before |-> ListenersOf(listeners, event)]
       /\ UNCHANGED otherThanBus

\* removeAllListeners(event?)
RemoveAllListenersOf(event) ==
    /\ listenerOwners' = [l \in (DOMAIN listenerOwners) \ Range(ListenersOf(listeners, event))
                             |-> listenerOwners[l]]
    /\ listeners' = MapDelete(listeners, event)
    /\ onceWrappers' = [w \in {x \in DOMAIN onceWrappers :
                                 \E e \in DOMAIN listeners' : Contains(listeners'[e], x)}
                           |-> onceWrappers[w]]
    /\ busOp' = [op |-> "removeAllListeners", event |-> event]
    /\ UNCHANGED otherThanBus

RemoveAllListeners ==
    /\ listeners' = EmptyMap
    /\ listenerOwners' = EmptyMap
    /\ onceWrappers' = EmptyMap
    /\ busOp' = [op |-> "removeAllListeners", event |-> None]
    /\ UNCHANGED otherThanBus

\* The (event, listener) pairs removePluginListeners collects: listeners.forEach
\* over the events, each set in insertion order.
ListenersToRemove(ls, owners, pluginName) ==
    {<<e, l>> \in (DOMAIN ls) \X (Fns \cup OnceIds) :
        /\ Contains(ls[e], l)
        /\ MapHas(owners, l)
        /\ owners[l] = pluginName}

\* listenersToRemove.forEach(({event, listener}) => this.off(event, listener))
RECURSIVE OffAll(_, _, _)
OffAll(pairs, ls, owners) ==
    IF pairs = {}
    THEN [listeners |-> ls, owners |-> owners]
    ELSE LET p == CHOOSE x \in pairs : TRUE
             r == OffMaps(ls, owners, p[1], p[2])
         IN OffAll(pairs \ {p}, r.listeners, r.owners)

RemovePluginListenersMaps(ls, owners, pluginName) ==
    OffAll(ListenersToRemove(ls, owners, pluginName), ls, owners)

RemovePluginListeners(pluginName) ==
    LET r == RemovePluginListenersMaps(listeners, listenerOwners, pluginName)
    IN /\ listeners' = r.listeners
       /\ listenerOwners' = r.owners
       /\ onceWrappers' = [w \in {x \in DOMAIN onceWrappers :
                                    \E e \in DOMAIN r.listeners : Contains(r.listeners[e], x)}
                              |-> onceWrappers[w]]
       /\ busOp' = [op |-> "removePluginListeners", plugin |-> pluginName,
                    removed |-> Cardinality(ListenersToRemove(listeners, listenerOwners,
                                                              pluginName))]
       /\ UNCHANGED otherThanBus

\* getPluginListenerCount(pluginName)
GetPluginListenerCount(owners, pluginName) ==
    Cardinality({l \in DOMAIN owners : owners[l] = pluginName})

NextBus ==
    \/ \E e \in Events, l \in Fns : On(e, l)
    \/ \E e \in Events, l \in Fns : Off(e, l)
    \/ \E e \in Events, l \in Fns : Once(e, l)
    \/ \E e \in Events : Emit(e)
    \/ \E e \in Events : RemoveAllListenersOf(e)
    \/ RemoveAllListeners
    \/ \E p \in PluginTags : RemovePluginListeners(p)

(***************************************************************************)
(* EventEmitter: request / response                                        *)
(***************************************************************************)
RequestNames == {"foo", "bar"}
Handlers == {"h1", "h2", "h3"}
Data == 0..MaxData

\* What handler h does with the payload: the promise it returns resolves with
\* a value, or rejects (handler h3) with its own error.
HandlerOutcome(h, data) ==
    IF h = "h3" THEN [kind |-> "rejected", error |-> <<"handler error", h, data>>]
    ELSE [kind |-> "resolved", value |-> <<"result", h, data>>]

NoHandlerError(requestName) == <<"No handler registered for request", requestName>>

InitReq ==
    /\ requestHandlers = EmptyMap
    /\ pendingRequests = << >>
    /\ lastRegistered = [n \in RequestNames |-> None]
    /\ replacedHandler = [n \in RequestNames |-> None]
    /\ reqOp = [op |-> "new"]

\* faulty variant: handleRequest that keeps a handler already registered
HandleRequestKeepFirst(handlers, requestName, handler) ==
    IF MapHas(handlers, requestName) THEN handlers ELSE MapSet(handlers, requestName, handler)

\* handleRequest(requestName, handler)
HandleRequestMap(handlers, requestName, handler) == MapSet(handlers, requestName, handler)

HandleRequest(requestName, handler) ==
    /\ requestHandlers' = HandleRequestMap(requestHandlers, requestName, handler)
    /\ lastRegistered' = [lastRegistered EXCEPT ![requestName] = handler]
    /\ replacedHandler' = [replacedHandler EXCEPT ![requestName] = lastRegistered[requestName]]
    /\ reqOp' = [op |-> "handleRequest"]
    /\ UNCHANGED pendingRequests
    /\ UNCHANGED otherThanReq

\* request(requestName, data) up to its await: the handler is looked up and
\* called now; without one the returned promise is rejected.
RequestCall(handlers, requestName, data) ==
    IF ~MapHas(handlers, requestName)
    THEN [called |-> None,
          outcome |-> [kind |-> "rejected", error |-> NoHandlerError(requestName)]]
    ELSE [called |-> handlers[requestName],
          outcome |-> HandlerOutcome(handlers[requestName], data)]

Request(requestName, data) ==
    /\ Len(pendingRequests) < MaxPending
    /\ pendingRequests' = Append(pendingRequests,
            [name |-> requestName, data |-> data,
             call |-> RequestCall(requestHandlers, requestName, data),
             expected |-> lastRegistered[requestName],
             replaced |-> replacedHandler[requestName]])
    /\ reqOp' = [op |-> "request"]
    /\ UNCHANGED <<requestHandlers, lastRegistered, replacedHandler>>
    /\ UNCHANGED otherThanReq

\* the promise returned by request() settles
Settle ==
    /\ pendingRequests # << >>
    /\ reqOp' = [op |-> "settled", request |-> Head(pendingRequests)]
    /\ pendingRequests' = Tail(pendingRequests)
    /\ UNCHANGED <<requestHandlers, lastRegistered, replacedHandler>>
    /\ UNCHANGED otherThanReq

NextReq ==
    \/ \E n \in RequestNames, h \in Handlers : HandleRequest(n, h)
    \/ \E n \in RequestNames, d \in Data : Request(n, d)
    \/ Settle


(***************************************************************************)
(* UISlotManager                                                           *)
(***************************************************************************)
\* Two of the seven slot names: the mirror source and its mirror target, which
\* is itself a slot without mirror rule.
SlotNames == {"playerbar:menu", "mobile:home"}

\* SLOT_MIRRORS
SLOT_MIRRORS == [s \in {"playerbar:menu"} |-> <<"mobile:home">>]

\* Plugin names are strings, modelled as sequences of tokens so that
\* concatenation and endsWith are what they are on strings.
SlotPlugins == {<<"p">>, <<"q">>}
RenderPlugins == {<<"p">>}
Priorities == {1, 5}
\* A plugin builds a new element for the menu or hands over the one it handed
\* before; it keeps one element for the other slot
Versions(slotName) == IF slotName = "playerbar:menu" THEN {1, 2} ELSE {1}

\* The elements plugin p hands to addContent for slot s: one DOM node per
\* (plugin, slot, version).
OrigElement(p, s, v) == <<"orig", p, s, v>>
StyleElement == <<"style">>
IsClone(el) == el[1] = "clone"

\* `${slotName}::${pluginName}`
MirrorKey(slotName, pluginName) == <<slotName, "::">> \o pluginName

\* key.endsWith(`::${pluginName}`)
EndsWith(key, suffix) ==
    /\ Len(key) >= Len(suffix)
    /\ SubSeq(key, Len(key) - Len(suffix) + 1, Len(key)) = suffix

KeyEndsWithPlugin(key, pluginName) == EndsWith(key, <<"::">> \o pluginName)

InitSlots ==
    /\ slots = EmptyMap
    /\ containers = {}
    /\ shadow = [s \in SlotNames |-> << >>]
    /\ mirrorElements = EmptyMap
    /\ slotOp = [op |-> "new"]

\* getSlotContent(slotName)
GetSlotContent(sl, slotName) == IF MapHas(sl, slotName) THEN sl[slotName] ELSE << >>

Elements(contents) == [i \in DOMAIN contents |-> contents[i].element]

\* renderSlot(slotName): all children of the shadow root but the first are
\* removed, then every content element is appended (appendChild takes a node
\* out of the parent it had).
RenderSlot(sm, conts, slotName) ==
    IF slotName \notin conts \/ sm.shadow[slotName] = << >>
    THEN sm
    ELSE LET els == Elements(GetSlotContent(sm.slots, slotName))
         IN [sm EXCEPT !.shadow =
               [t \in SlotNames |->
                  IF t = slotName
                  THEN <<Head(sm.shadow[t])>> \o els
                  ELSE SelectSeq(sm.shadow[t], LAMBDA x : ~Contains(els, x))]]

\* slotContents.sort((a, b) => a.priority - b.priority): a stable sort
RECURSIVE InsertByPriority(_, _)
InsertByPriority(sorted, c) ==
    IF sorted = << >> THEN <<c>>
    ELSE IF Head(sorted).priority <= c.priority
         THEN <<Head(sorted)>> \o InsertByPriority(Tail(sorted), c)
         ELSE <<c>> \o sorted

\* faulty variant: the list is left in the order it has
SortByPriorityNone(contents) == contents

RECURSIVE SortByPriority(_)
SortByPriority(contents) ==
    IF contents = << >> THEN << >>
    ELSE InsertByPriority(SortByPriority(SubSeq(contents, 1, Len(contents) - 1)),
                          contents[Len(contents)])

\* faulty variant: _addToSlot's list update that always pushes
PutContentAlwaysPush(contents, content) == Append(contents, content)

\* _addToSlot's list update: replace the plugin's entry or push
PutContent(contents, content) ==
    IF \E i \in DOMAIN contents : contents[i].pluginName = content.pluginName
    THEN LET existingIndex == CHOOSE i \in DOMAIN contents :
                 /\ contents[i].pluginName = content.pluginName
                 /\ \A j \in DOMAIN contents :
                        contents[j].pluginName = content.pluginName => i <= j
         IN [contents EXCEPT ![existingIndex] = content]
    ELSE Append(contents, content)

\* _addToSlot(slotName, content)
AddToSlot(sm, conts, slotName, content) ==
    LET cur == GetSlotContent(sm.slots, slotName)
        new == SortByPriority(PutContent(cur, content))
    IN RenderSlot([sm EXCEPT !.slots = MapSet(sm.slots, slotName, new)], conts, slotName)

\* _removeMirrors(key), over the entries recorded under the key
RECURSIVE RemoveEntries(_, _, _)
RemoveEntries(sm, conts, entries) ==
    IF entries = << >> THEN sm
    ELSE LET en == Head(entries)
             next == IF MapHas(sm.slots, en.slot)
                     THEN RenderSlot(
                            [sm EXCEPT !.slots = MapSet(sm.slots, en.slot,
                                SelectSeq(sm.slots[en.slot], LAMBDA c : c.element # en.element))],
                            conts, en.slot)
                     ELSE sm
         IN RemoveEntries(next, conts, Tail(entries))

RemoveMirrors(sm, conts, key) ==
    IF ~MapHas(sm.mirrorElements, key) THEN sm
    ELSE LET r == RemoveEntries(sm, conts, sm.mirrorElements[key])
         IN [r EXCEPT !.mirrorElements = MapDelete(r.mirrorElements, key)]

\* The clone indices no node of the manager's state carries
UsedCloneIds(sm) ==
    {c.element[2] : c \in {x \in UNION {Range(sm.slots[s]) : s \in DOMAIN sm.slots} :
                              IsClone(x.element)}}
    \cup {en.element[2] : en \in UNION {Range(sm.mirrorElements[k]) : k \in DOMAIN sm.mirrorElements}}
    \cup {el[2] : el \in {x \in UNION {Range(sm.shadow[s]) : s \in SlotNames} : IsClone(x)}}

FreeCloneIds(sm) == (1..MaxClones) \ UsedCloneIds(sm)

\* content.element.cloneNode(true) with its click listener: the clone is a new
\* node whose listener calls click() on the element it was cloned from
CloneNode(element, n) == <<"clone", n, element>>

\* faulty variant: a clone whose click listener is not attached: the click stays on the clone
ClickTargetSelf(clone) == clone

\* the clone's click listener: content.element.click()
ClickTarget(clone) == clone[3]

\* faulty variant: a mirror entry that does not carry the priority of the source content
MirrorContentDefaultPriority(content, clonedElement) ==
    [pluginName |-> content.pluginName, element |-> clonedElement, priority |-> 1]

\* mirrorContent
MirrorContent(content, clonedElement) ==
    [pluginName |-> content.pluginName, element |-> clonedElement, priority |-> content.priority]

\* the loop over the mirror targets in addContent
RECURSIVE MirrorInto(_, _, _, _, _)
MirrorInto(sm, conts, targets, content, entries) ==
    IF targets = << >> THEN [sm |-> sm, entries |-> entries]
    ELSE LET n == CHOOSE x \in FreeCloneIds(sm) : \A y \in FreeCloneIds(sm) : x <= y
             clonedElement == CloneNode(content.element, n)
             added == AddToSlot(sm, conts, Head(targets), MirrorContent(content, clonedElement))
         IN MirrorInto(added, conts, Tail(targets), content,
                       Append(entries, [slot |-> Head(targets), element |-> clonedElement]))

\* addContent(slotName, content)
AddContentSM(sm, conts, slotName, content) ==
    LET added == AddToSlot(sm, conts, slotName, content)
    IN IF MapHas(SLOT_MIRRORS, slotName)
       THEN LET key == MirrorKey(slotName, content.pluginName)
                cleaned == RemoveMirrors(added, conts, key)
                r == MirrorInto(cleaned, conts, SLOT_MIRRORS[slotName], content, << >>)
            IN [r.sm EXCEPT !.mirrorElements = MapSet(r.sm.mirrorElements, key, r.entries)]
       ELSE added

\* faulty variant: removeContent that leaves the mirrors in place
RemoveContentKeepMirrors(sm, conts, slotName, pluginName) ==
    IF ~MapHas(sm.slots, slotName) THEN sm
    ELSE RenderSlot([sm EXCEPT !.slots = MapSet(sm.slots, slotName,
                        SelectSeq(sm.slots[slotName], LAMBDA c : c.pluginName # pluginName))],
                    conts, slotName)

\* removeContent(slotName, pluginName)
RemoveContentSM(sm, conts, slotName, pluginName) ==
    IF ~MapHas(sm.slots, slotName) THEN sm
    ELSE LET filtered == RenderSlot(
                 [sm EXCEPT !.slots = MapSet(sm.slots, slotName,
                     SelectSeq(sm.slots[slotName], LAMBDA c : c.pluginName # pluginName))],
                 conts, slotName)
         IN RemoveMirrors(filtered, conts, MirrorKey(slotName, pluginName))

\* removePluginContent(pluginName): the loop over this.slots
RECURSIVE FilterSlots(_, _, _, _)
FilterSlots(sm, conts, todo, pluginName) ==
    IF todo = {} THEN sm
    ELSE LET s == CHOOSE x \in todo : TRUE
             next == RenderSlot(
                 [sm EXCEPT !.slots = MapSet(sm.slots, s,
                     SelectSeq(sm.slots[s], LAMBDA c : c.pluginName # pluginName))],
                 conts, s)
         IN FilterSlots(next, conts, todo \ {s}, pluginName)

\* removePluginContent(pluginName): the loop over this.mirrorElements
RECURSIVE RemoveMirrorKeys(_, _, _)
RemoveMirrorKeys(sm, conts, keys) ==
    IF keys = {} THEN sm
    ELSE LET k == CHOOSE x \in keys : TRUE
         IN RemoveMirrorKeys(RemoveMirrors(sm, conts, k), conts, keys \ {k})

RemovePluginContentSM(sm, conts, pluginName) ==
    LET filtered == FilterSlots(sm, conts, DOMAIN sm.slots, pluginName)
    IN RemoveMirrorKeys(filtered, conts,
           {k \in DOMAIN filtered.mirrorElements : KeyEndsWithPlugin(k, pluginName)})

\* the shadow root registerContainer ensures, with the style element
\* injectSharedStyles puts in a new one
AttachShadow(sm, slotName) ==
    IF sm.shadow[slotName] = << >>
    THEN [sm EXCEPT !.shadow[slotName] = <<StyleElement>>]
    ELSE sm

\* faulty variant: registerContainer that does not render the pending content
RegisterContainerNoRender(sm, conts, slotName) == AttachShadow(sm, slotName)

\* registerContainer(slotName, container), conts being the containers with
\* this one set
RegisterContainerSM(sm, conts, slotName) ==
    RenderSlot(AttachShadow(sm, slotName), conts, slotName)

\* clearAll(): container.innerHTML = '' empties the containers' own children,
\* not their shadow roots
ClearAllSM(sm) == [sm EXCEPT !.slots = EmptyMap]

SM == [slots |-> slots, shadow |-> shadow, mirrorElements |-> mirrorElements]

SetSM(sm) ==
    /\ slots' = sm.slots
    /\ shadow' = sm.shadow
    /\ mirrorElements' = sm.mirrorElements

\* the clones of plugin content that slot list t holds
ClonesIn(sl, t) == {c \in Range(GetSlotContent(sl, t)) : IsClone(c.element)}

RegisterContainer(slotName) ==
    /\ slotName \notin containers
    /\ containers' = containers \cup {slotName}
    /\ SetSM(RegisterContainerSM(SM, containers', slotName))
    /\ slotOp' = [op |-> "registerContainer", slot |-> slotName,
                  again |-> shadow[slotName] # << >>,
                  contents |-> GetSlotContent(slots, slotName)]
    /\ UNCHANGED otherThanSlots

UnregisterContainer(slotName) ==
    /\ slotName \in containers
    /\ containers' = containers \ {slotName}
    /\ slotOp' = [op |-> "unregisterContainer", slot |-> slotName,
                  contents |-> GetSlotContent(slots, slotName)]
    /\ UNCHANGED <<slots, shadow, mirrorElements>>
    /\ UNCHANGED otherThanSlots

AddContent(slotName, pluginName, v, priority) ==
    LET content == [pluginName |-> pluginName,
                    element |-> OrigElement(pluginName, slotName, v),
                    priority |-> priority]
    IN /\ FreeCloneIds(SM) # {}
       /\ SetSM(AddContentSM(SM, containers, slotName, content))
       /\ slotOp' = [op |-> "addContent", slot |-> slotName, plugin |-> pluginName,
                     content |-> content,
                     present |-> \E c \in Range(GetSlotContent(slots, slotName)) :
                                    c.pluginName = pluginName,
                     direct |-> \E c \in Range(GetSlotContent(slots, "mobile:home")) :
                                   c.pluginName = pluginName /\ ~IsClone(c.element),
                     had |-> \E c \in Range(GetSlotContent(slots, "mobile:home")) :
                                c.pluginName = pluginName]
       /\ UNCHANGED containers
       /\ UNCHANGED otherThanSlots

RemoveContent(slotName, pluginName) ==
    /\ SetSM(RemoveContentSM(SM, containers, slotName, pluginName))
    /\ slotOp' = [op |-> "removeContent", slot |-> slotName, plugin |-> pluginName,
                  had |-> \E c \in ClonesIn(slots, "mobile:home") : c.pluginName = pluginName]
    /\ UNCHANGED containers
    /\ UNCHANGED otherThanSlots

RemovePluginContent(pluginName) ==
    /\ SetSM(RemovePluginContentSM(SM, containers, pluginName))
    /\ slotOp' = [op |-> "removePluginContent", plugin |-> pluginName,
                  had |-> \E c \in ClonesIn(slots, "mobile:home") : c.pluginName = pluginName]
    /\ UNCHANGED containers
    /\ UNCHANGED otherThanSlots

ClearAll ==
    /\ SetSM(ClearAllSM(SM))
    /\ slotOp' = [op |-> "clearAll"]
    /\ UNCHANGED containers
    /\ UNCHANGED otherThanSlots

\* the user clicks a mirror clone that a mirror target slot holds
ClickClone(slotName, clone) ==
    /\ clone \in {c.element : c \in ClonesIn(slots, slotName)}
    /\ slotOp' = [op |-> "click", slot |-> slotName, element |-> clone,
                  activated |-> ClickTarget(clone)]
    /\ UNCHANGED <<slots, containers, shadow, mirrorElements>>
    /\ UNCHANGED otherThanSlots

\* The slot manager while no container is registered: renderSlot returns at
\* once, and no operation reads what was rendered.
NextSlots ==
    \/ \E s \in SlotNames, p \in SlotPlugins, pr \in Priorities :
          \E v \in Versions(s) : AddContent(s, p, v, pr)
    \/ \E s \in SlotNames, p \in SlotPlugins : RemoveContent(s, p)
    \/ \E p \in SlotPlugins : RemovePluginContent(p)
    \/ ClearAll
    \/ \E s \in SlotNames : \E c \in {x.element : x \in ClonesIn(slots, s)} : ClickClone(s, c)

\* plugin names of which one ends with "::" and the other: 'p' and 'x::p'
NamePlugins == {<<"p">>, <<"x", "::", "p">>}

\* The slot manager used by plugins with such names.
NextNames ==
    \/ \E s \in SlotNames, p \in NamePlugins, pr \in Priorities :
          \E v \in Versions(s) : AddContent(s, p, v, pr)
    \/ \E s \in SlotNames, p \in NamePlugins : RemoveContent(s, p)
    \/ \E p \in NamePlugins : RemovePluginContent(p)

(***************************************************************************)
(* PluginStorage                                                           *)
(***************************************************************************)
StoragePlugins == {"A", "B"}
StorageKeys == {"k", "kk"}
Null == <<"null">>
Str(x) == <<"str", x>>
\* the values plugins store: null, a short and a long string
StorageValues == {Null, Str("v"), Str("vvvvvvvvvvvvvvvv")}

STORAGE_PREFIX == "audion_plugin_"

\* getKey(key)
GetKey(pluginName, key) == STORAGE_PREFIX \o pluginName \o "_" \o key

\* JSON.stringify(value)
Serialize(value) == IF value = Null THEN "null" ELSE "\"" \o value[2] \o "\""

\* JSON.parse(text), for the texts JSON.stringify writes
Parse(text) == CHOOSE v \in StorageValues : Serialize(v) = text

InitStorage ==
    /\ backend = EmptyMap
    /\ localStorage = EmptyMap
    /\ batches = << >>
    /\ storOp = [op |-> "new"]

\* plugin_get_data: the stored string or null
BackendGet(be, pluginName, key) ==
    IF MapHas(be, <<pluginName, key>>) THEN be[<<pluginName, key>>] ELSE None

\* plugin_save_data
BackendSave(be, pluginName, key, value) == MapSet(be, <<pluginName, key>>, value)

\* plugin_clear_data
BackendClear(be, pluginName) == [x \in {y \in DOMAIN be : y[1] # pluginName} |-> be[x]]

\* plugin_list_keys
BackendKeys(be, pluginName) == {x[2] : x \in {y \in DOMAIN be : y[1] = pluginName}}

\* the cost checkQuota and getUsedBytes give an entry: key and value in UTF-16
EntrySize(storageKey, value) == (Len(storageKey) + Len(value)) * 2

RECURSIVE SumSizes(_, _)
SumSizes(m, ks) ==
    IF ks = {} THEN 0
    ELSE LET k == CHOOSE x \in ks : TRUE
         IN EntrySize(k, m[k]) + SumSizes(m, ks \ {k})

\* getUsedBytes(), recalculated: the entries of localStorage under the plugin's prefix
GetUsedBytes(ls, pluginName) ==
    SumSizes(ls, {sk \in DOMAIN ls :
                    \E key \in StorageKeys : sk = GetKey(pluginName, key) /\ ls[sk] # ""})

\* checkQuota(storageKey, newValue); set() does not call it
CheckQuota(ls, pluginName, storageKey, newValue, quota) ==
    LET existingSize == IF MapHas(ls, storageKey) /\ ls[storageKey] # ""
                        THEN EntrySize(storageKey, ls[storageKey]) ELSE 0
        newSize == EntrySize(storageKey, newValue)
    IN GetUsedBytes(ls, pluginName) + (newSize - existingSize) <= quota

\* set(key, value): the value is serialized and handed to plugin_save_data;
\* a failure of the command is caught and reported as false
SetResult(be, pluginName, key, value, commandOk) ==
    IF commandOk
    THEN [backend |-> BackendSave(be, pluginName, key, Serialize(value)),
          reached |-> TRUE, result |-> TRUE]
    ELSE [backend |-> be, reached |-> TRUE, result |-> FALSE]

\* what the plugin has stored, costed as checkQuota costs an entry
StoredBytes(be, pluginName) ==
    SumSizes([sk \in {GetKey(pluginName, k) : k \in BackendKeys(be, pluginName)} |->
                 LET k == CHOOSE x \in BackendKeys(be, pluginName) : GetKey(pluginName, x) = sk
                 IN be[<<pluginName, k>>]],
             {GetKey(pluginName, k) : k \in BackendKeys(be, pluginName)})

StorageSet(pluginName, key, value) ==
    \E commandOk \in BOOLEAN :
        LET r == SetResult(backend, pluginName, key, value, commandOk)
            existing == IF MapHas(backend, <<pluginName, key>>)
                        THEN EntrySize(GetKey(pluginName, key), backend[<<pluginName, key>>])
                        ELSE 0
            after == StoredBytes(backend, pluginName) - existing
                       + EntrySize(GetKey(pluginName, key), Serialize(value))
        IN /\ backend' = r.backend
           /\ storOp' = [op |-> "set", plugin |-> pluginName, key |-> key,
                         result |-> r.result, reached |-> r.reached,
                         prior |-> BackendGet(backend, pluginName, key),
                         over |-> after > QuotaBytes]
           /\ UNCHANGED <<localStorage, batches>>
           /\ UNCHANGED otherThanStorage

\* remove(key): set(key, null)
StorageRemove(pluginName, key) ==
    \E commandOk \in BOOLEAN :
        LET r == SetResult(backend, pluginName, key, Null, commandOk)
        IN /\ backend' = r.backend
           /\ storOp' = [op |-> "remove", plugin |-> pluginName, key |-> key,
                         result |-> r.result]
           /\ UNCHANGED <<localStorage, batches>>
           /\ UNCHANGED otherThanStorage

\* get(key)
GetValue(be, pluginName, key, commandOk) ==
    IF commandOk
    THEN LET value == BackendGet(be, pluginName, key)
         IN IF value # None /\ value # "" THEN Parse(value) ELSE Null
    ELSE Null

StorageGet(pluginName, key) ==
    \E commandOk \in BOOLEAN :
        /\ storOp' = [op |-> "get", plugin |-> pluginName, key |-> key,
                      result |-> GetValue(backend, pluginName, key, commandOk)]
        /\ UNCHANGED <<backend, localStorage, batches>>
        /\ UNCHANGED otherThanStorage

\* faulty variant: a clear command that is not scoped by the plugin's name
ClearCommandUnscoped(be, pluginName) == EmptyMap

\* invoke('plugin_clear_data', {pluginName: this.pluginName, pluginDir})
ClearCommand(be, pluginName) == BackendClear(be, pluginName)

\* clear()
StorageClear(pluginName) ==
    \E commandOk \in BOOLEAN :
        /\ backend' = IF commandOk THEN ClearCommand(backend, pluginName) ELSE backend
        /\ storOp' = [op |-> "clear", plugin |-> pluginName,
                      result |-> IF commandOk
                                 THEN Cardinality(BackendKeys(backend, pluginName)) ELSE 0]
        /\ UNCHANGED <<localStorage, batches>>
        /\ UNCHANGED otherThanStorage

\* The objects handed to setBatch and importData, as Object.entries lists them
BatchData ==
    {<< >>, << <<"k", Str("v")>> >>, << <<"kk", Null>>, <<"k", Str("v")>> >>}

DataKeys(data) == {data[i][1] : i \in 1..Len(data)}

\* faulty variant: the loop gives up at the first set that fails
CountSetAbortOnFailure(b, ok) ==
    IF ok
    THEN [b EXCEPT !.todo = Tail(@), !.success = @ + 1, !.written = @ + 1]
    ELSE [b EXCEPT !.todo = << >>, !.failed = @ + 1]

\* one round of setBatch's loop after its set has settled: success++ or failed++
CountSet(b, ok) ==
    IF ok
    THEN [b EXCEPT !.todo = Tail(@), !.success = @ + 1, !.written = @ + 1]
    ELSE [b EXCEPT !.todo = Tail(@), !.failed = @ + 1]

\* a new call: what it was handed, what the plugin had stored when it was made,
\* the entries still to set, the counters, and written, the number of its
\* plugin_save_data commands that succeeded
NewBatch(op, pluginName, data, replace) ==
    [op |-> op, plugin |-> pluginName, data |-> data, replace |-> replace,
     prior |-> [k \in BackendKeys(backend, pluginName) |-> backend[<<pluginName, k>>]],
     pc |-> IF replace THEN "clear" ELSE "set",
     cleared |-> FALSE,
     todo |-> data, success |-> 0, failed |-> 0, written |-> 0]

\* what the call returns, with what it observed
Returned(b) ==
    [op |-> b.op, plugin |-> b.plugin, data |-> b.data, replace |-> b.replace,
     prior |-> b.prior, cleared |-> b.cleared, written |-> b.written,
     result |-> [success |-> b.success, failed |-> b.failed]]

WithoutBatch(i) ==
    [j \in 1..(Len(batches) - 1) |-> IF j < i THEN batches[j] ELSE batches[j + 1]]

\* the call goes on to its next await, or returns when no entry is left
Continue(i, b) ==
    IF b.todo = << >>
    THEN /\ batches' = WithoutBatch(i)
         /\ storOp' = Returned(b)
    ELSE /\ batches' = [batches EXCEPT ![i] = b]
         /\ storOp' = [op |-> "await", plugin |-> b.plugin]

\* setBatch(entries) up to the await of its first set
SetBatch(pluginName, entries) ==
    /\ Len(batches) < MaxBatches
    /\ IF entries = << >>
       THEN /\ storOp' = Returned(NewBatch("setBatch", pluginName, entries, FALSE))
            /\ UNCHANGED batches
       ELSE /\ batches' = Append(batches, NewBatch("setBatch", pluginName, entries, FALSE))
            /\ storOp' = [op |-> "await", plugin |-> pluginName]
    /\ UNCHANGED <<backend, localStorage>>
    /\ UNCHANGED otherThanStorage

\* importData(data, replace) up to its first await: of clear() when replace,
\* else of setBatch's first set
ImportData(pluginName, data, replace) ==
    /\ Len(batches) < MaxBatches
    /\ IF data = << >> /\ ~replace
       THEN /\ storOp' = Returned(NewBatch("importData", pluginName, data, replace))
            /\ UNCHANGED batches
       ELSE /\ batches' = Append(batches, NewBatch("importData", pluginName, data, replace))
            /\ storOp' = [op |-> "await", plugin |-> pluginName]
    /\ UNCHANGED <<backend, localStorage>>
    /\ UNCHANGED otherThanStorage

\* importData after its clear() has settled: clear catches a failure of the
\* command and importData goes on to setBatch either way
ImportCleared(i) ==
    \E commandOk \in BOOLEAN :
        /\ i \in 1..Len(batches)
        /\ batches[i].pc = "clear"
        /\ backend' = IF commandOk THEN ClearCommand(backend, batches[i].plugin)
                      ELSE backend
        /\ Continue(i, [batches[i] EXCEPT !.pc = "set", !.cleared = commandOk])
        /\ UNCHANGED localStorage
        /\ UNCHANGED otherThanStorage

\* setBatch after the set of its next entry has settled
BatchSetDone(i) ==
    \E commandOk \in BOOLEAN :
        /\ i \in 1..Len(batches)
        /\ batches[i].pc = "set"
        /\ LET b == batches[i]
               entry == Head(b.todo)
               r == SetResult(backend, b.plugin, entry[1], entry[2], commandOk)
           IN /\ backend' = r.backend
              /\ Continue(i, CountSet(b, r.result))
        /\ UNCHANGED localStorage
        /\ UNCHANGED otherThanStorage

NextStorage ==
    \/ \E p \in StoragePlugins, k \in StorageKeys, v \in StorageValues : StorageSet(p, k, v)
    \/ \E p \in StoragePlugins, k \in StorageKeys : StorageRemove(p, k)
    \/ \E p \in StoragePlugins, k \in StorageKeys : StorageGet(p, k)
    \/ \E p \in StoragePlugins : StorageClear(p)

\* the plugin whose storage gets the setBatch and importData calls
BatchPlugins == {"A"}

\* The storage with the setBatch and importData calls of one plugin in flight
\* next to single writes of a short string, removals and clears by both
\* plugins under one key name
NextBatch ==
    \/ \E p \in StoragePlugins : StorageSet(p, "k", Str("v"))
    \/ \E p \in StoragePlugins : StorageRemove(p, "k")
    \/ \E p \in StoragePlugins : StorageClear(p)
    \/ \E p \in BatchPlugins, d \in BatchData : SetBatch(p, d)
    \/ \E p \in BatchPlugins, d \in BatchData, replace \in BOOLEAN : ImportData(p, d, replace)
    \/ \E i \in 1..MaxBatches : ImportCleared(i)
    \/ \E i \in 1..MaxBatches : BatchSetDone(i)

\* The slot manager with containers that come and go, for one plugin building
\* one element per slot.
NextRender ==
    \/ \E s \in SlotNames : RegisterContainer(s)
    \/ \E s \in SlotNames : UnregisterContainer(s)
    \/ \E s \in SlotNames, p \in RenderPlugins, pr \in Priorities :
          AddContent(s, p, 1, pr)
    \/ \E s \in SlotNames, p \in RenderPlugins : RemoveContent(s, p)
    \/ \E p \in RenderPlugins : RemovePluginContent(p)
    \/ ClearAll

(***************************************************************************)
(* Plugin store (src/unnamed/part_002), the command surface it invokes and *)
(* the runtime it drives                                                   *)
(***************************************************************************)
PluginNames == {"A", "B"}

\* manifests: A declares ui:inject and has a repository, B declares
\* storage:local and has none
ManifestPermissions(name) == IF name = "A" THEN <<"ui:inject">> ELSE <<"storage:local">>

HasRepo(name) == name = "A"

Manifest(name, version) ==
    [name |-> name, version |-> version,
     permissions |-> ManifestPermissions(name), repo |-> HasRepo(name)]

PluginInfo(name, enabled, granted, version) ==
    [name |-> name, enabled |-> enabled, manifest |-> Manifest(name, version),
     granted_permissions |-> granted]

\* the plugin directories a previous session can have left behind
PreviousSessions ==
    LET b == PluginInfo("B", TRUE, <<"storage:local">>, 1)
        as == {PluginInfo("A", e, <<"storage:local">>, 1) : e \in BOOLEAN}
    IN {<<a, b>> : a \in as} \cup {<<b, a>> : a \in as} \cup {<<b>>}

\* what the handlers catch: the Error the runtime throws when a load fails, the
\* value a command rejects with (not an Error), and no error passed at all
LoadError == [isError |-> TRUE, message |-> "load error"]
CommandError == [isError |-> FALSE, message |-> "command failed"]
NoError == [isError |-> FALSE, message |-> ""]

InitStore ==
    /\ backendPlugins = <<>>
    /\ installed = <<>>
    /\ loading = FALSE
    /\ error = None
    /\ failedPlugins = <<>>
    /\ pendingUpdates = <<>>
    /\ runtime = None
    /\ rtPlugins = <<>>
    /\ pmGranted = [n \in PluginNames |-> {}]
    /\ tasks = <<>>
    /\ calls = 0
    /\ loadOp = [name |-> None, already |-> FALSE, instantiated |-> FALSE,
                 failed |-> FALSE, before |-> <<>>, after |-> <<>>]
    /\ storeOp = [op |-> "new"]

\* Array.find / findIndex by name: the first index, 0 when absent
RECURSIVE FindFrom(_, _, _)
FindFrom(list, name, i) ==
    IF i > Len(list) THEN 0
    ELSE IF list[i].name = name THEN i
    ELSE FindFrom(list, name, i + 1)

FindPlugin(list, name) == FindFrom(list, name, 1)

\* [...new Set(array)]: first occurrences, in order
RECURSIVE Dedupe(_)
Dedupe(s) ==
    IF s = <<>> THEN <<>>
    ELSE LET front == Dedupe(SubSeq(s, 1, Len(s) - 1))
             x == s[Len(s)]
         IN IF Contains(front, x) THEN front ELSE Append(front, x)

\* installed.map(p => p.name === name ? f(p) : p)
MapNamed(list, name, new) ==
    [i \in 1..Len(list) |-> IF list[i].name = name THEN new[i] ELSE list[i]]

\* installed.filter(p => p.name !== name)
WithoutNamed(list, name) == SeqFilterIn(list, {x \in Range(list) : x.name # name})

(* -------- the command surface (list_plugins, install_plugin, ...) ------ *)
\* install_plugin: a new entry, disabled, with nothing granted
InstallCommand(bp, name) == Append(bp, PluginInfo(name, FALSE, <<>>, 1))

\* uninstall_plugin
UninstallCommand(bp, name) == WithoutNamed(bp, name)

\* enable_plugin / disable_plugin
EnableCommand(bp, name, flag) ==
    MapNamed(bp, name, [i \in 1..Len(bp) |-> [bp[i] EXCEPT !.enabled = flag]])

\* grant_permissions: the stored grants with the new ones, once each
GrantCommand(bp, name, permissions) ==
    MapNamed(bp, name,
             [i \in 1..Len(bp) |->
                 [bp[i] EXCEPT !.granted_permissions = Dedupe(@ \o permissions)]])

\* revoke_permissions: the stored grants without the revoked ones
RevokeCommand(bp, name, permissions) ==
    MapNamed(bp, name,
             [i \in 1..Len(bp) |->
                 [bp[i] EXCEPT !.granted_permissions =
                     SeqFilterIn(@, Range(@) \ Range(permissions))]])

\* update_plugin: the manifest is fetched again at the next version
UpdateCommand(bp, name) ==
    MapNamed(bp, name,
             [i \in 1..Len(bp) |->
                 [bp[i] EXCEPT !.manifest = Manifest(name, bp[i].manifest.version + 1)]])

\* check_plugin_updates: the installed plugins with a newer version
CheckUpdatesCommand(bp) ==
    LET old == SeqFilterIn(bp, {x \in Range(bp) : x.manifest.version < MaxVersion})
    IN [i \in 1..Len(old) |-> old[i].name]

(* -------- store helpers ------------------------------------------------ *)
\* error instanceof Error ? error.message : String(error): the message of an
\* Error, the text of a rejection value
ErrorMessage(err) == IF err.isError THEN err.message ELSE err.message \o ""

\* faulty variant: recordPluginFailure that keeps the old record of the plugin
RecordPluginFailureNoFilter(fp, name, err) ==
    Append(fp, [name |-> name, error |-> ErrorMessage(err)])

\* recordPluginFailure
RecordPluginFailure(fp, name, err) ==
    Append(SeqFilterIn(fp, {f \in Range(fp) : f.name # name}),
           [name |-> name, error |-> ErrorMessage(err)])

\* faulty variant: clearPluginFailure that empties the roster
ClearPluginFailureAll(fp, name) == <<>>

\* clearPluginFailure
ClearPluginFailure(fp, name) == SeqFilterIn(fp, {f \in Range(fp) : f.name # name})

\* setCriticalError: the message, with the error's message when one is passed
CriticalMessage(message, err) ==
    IF err.isError THEN message \o ": " \o err.message ELSE message

\* faulty variant: every permission is granted, whatever the entry holds
UniquePermissionsEverything(plugin) == <<"ui:inject", "storage:local">>

\* the permissions the store grants before a load: granted_permissions then
\* manifest.permissions, de-duplicated
UniquePermissions(plugin) ==
    Dedupe(plugin.granted_permissions \o plugin.manifest.permissions)

(* -------- the runtime and its permission manager ----------------------- *)
\* runtime.getPlugin(name)
GetPlugin(rp, name) == FindPlugin(rp, name) # 0

\* permissionManager.grant: union
Grant(pm, name, permissions) == [pm EXCEPT ![name] = @ \cup Range(permissions)]

\* permissionManager.has: exact membership
HasPermission(pm, name, permission) == permission \in pm[name]

\* runtime.enablePlugin: the start hook of the loaded plugin
RuntimeEnable(rp, name) ==
    MapNamed(rp, name, [i \in 1..Len(rp) |-> [rp[i] EXCEPT !.enabled = TRUE]])

\* runtime.disablePlugin: the stop hook of the loaded plugin
RuntimeDisable(rp, name) ==
    MapNamed(rp, name, [i \in 1..Len(rp) |-> [rp[i] EXCEPT !.enabled = FALSE]])

\* runtime.unloadPlugin: the handle is dropped
RuntimeUnload(rp, name) == WithoutNamed(rp, name)

(* -------- the state the store's handlers read and write ---------------- *)
ST ==
    [backendPlugins |-> backendPlugins, installed |-> installed, loading |-> loading,
     error |-> error, failedPlugins |-> failedPlugins, pendingUpdates |-> pendingUpdates,
     runtime |-> runtime, rtPlugins |-> rtPlugins, pmGranted |-> pmGranted]

SetST(st) ==
    /\ backendPlugins' = st.backendPlugins
    /\ installed' = st.installed
    /\ loading' = st.loading
    /\ error' = st.error
    /\ failedPlugins' = st.failedPlugins
    /\ pendingUpdates' = st.pendingUpdates
    /\ runtime' = st.runtime
    /\ rtPlugins' = st.rtPlugins
    /\ pmGranted' = st.pmGranted

\* setCriticalError(message, err)
SetCriticalError(st, message, err) ==
    [st EXCEPT !.error = CriticalMessage(message, err), !.loading = FALSE]

\* faulty variant: only the stored grants are handed to the runtime
GrantForStoredOnly(st, plugin) ==
    [st EXCEPT !.pmGranted = Grant(@, plugin.name, plugin.granted_permissions)]

\* runtime.grantPermissions(name, uniquePermissions)
GrantFor(st, plugin) ==
    [st EXCEPT !.pmGranted = Grant(@, plugin.name, UniquePermissions(plugin))]

\* the runtime instantiates the plugin and runs its init hook: a handle and
\* onLoad on success; on failure the error is thrown, after onError or not
Instantiate(st, manifest, ok, reported) ==
    IF ok
    THEN [st |-> [st EXCEPT
                    !.rtPlugins = Append(@, [name |-> manifest.name, enabled |-> FALSE,
                                             version |-> manifest.version]),
                    !.failedPlugins = ClearPluginFailure(@, manifest.name)],
          result |-> "loaded"]
    ELSE [st |-> IF reported
                 THEN [st EXCEPT !.failedPlugins =
                           RecordPluginFailure(@, manifest.name, LoadError)]
                 ELSE st,
          result |-> "failed"]

\* faulty variant: loadPlugin without the existence check
LoadPluginUnguarded(st, manifest, ok, reported) == Instantiate(st, manifest, ok, reported)

\* runtime.loadPlugin(manifest): a load of a name that is loaded does nothing
LoadPlugin(st, manifest, ok, reported) ==
    IF GetPlugin(st.rtPlugins, manifest.name)
    THEN [st |-> st, result |-> "noop"]
    ELSE Instantiate(st, manifest, ok, reported)

\* what a handler that awaited loadPlugin saw, with the roster of failures as
\* it was when the load settled and as the handler left it
LoadObserved(st, manifest, r, after) ==
    [name |-> manifest.name,
     already |-> GetPlugin(st.rtPlugins, manifest.name),
     instantiated |-> r.result = "loaded",
     failed |-> r.result = "failed",
     before |-> st.failedPlugins,
     after |-> after.failedPlugins]

(* -------- asynchronous calls in flight --------------------------------- *)
Task(op, pc, name, via) ==
    [op |-> op, pc |-> pc, name |-> name, via |-> via,
     list |-> <<>>, idx |-> 0, failed |-> {}, info |-> <<>>]

ReplaceTask(i, new) == SubSeq(tasks, 1, i - 1) \o new \o SubSeq(tasks, i + 1, Len(tasks))

AtPc(i, op, pc) == tasks[i].op = op /\ tasks[i].pc = pc

Quiet == UNCHANGED <<busVars, slotVars, calls>> /\ UNCHANGED otherThanStore

\* the user starts one more operation of the store
Started ==
    /\ calls < MaxCalls
    /\ calls' = calls + 1
    /\ UNCHANGED <<busVars, slotVars>>
    /\ UNCHANGED otherThanStore

Step == [op |-> "step"]

\* the call of task t returns; failure names what failed in it, "none" when
\* it returned true
Finished(t, failure) ==
    [op |-> "returned", of |-> t.op, name |-> t.name, via |-> t.via,
     failure |-> failure]

\* faulty variant: the outer catch of init sets the message only
InitFailedStillLoading(st) == [st EXCEPT !.error = "Failed to initialize plugin system"]

\* the outer catch of init
InitFailed(st) == SetCriticalError(st, "Failed to initialize plugin system", CommandError)

\* faulty variant: the updates found at start-up are installed at once
StoreUpdatesAndApply(st, updates) ==
    LET bp == [i \in 1..Len(st.backendPlugins) |->
                  IF Contains(updates, st.backendPlugins[i].name)
                  THEN [st.backendPlugins[i] EXCEPT
                           !.manifest = Manifest(@.name, @.version + 1)]
                  ELSE st.backendPlugins[i]]
    IN [st EXCEPT !.backendPlugins = bp, !.installed = bp, !.pendingUpdates = updates]

\* checkAndApplyUpdates with the updates check_plugin_updates returned
StoreUpdates(st, updates) ==
    IF Len(updates) > 0 THEN [st EXCEPT !.pendingUpdates = updates] ELSE st

(* -------- init --------------------------------------------------------- *)
\* the plugin directory as an earlier session left it, before the store starts
InstalledOnDisk(list) ==
    /\ storeOp.op = "new"
    /\ backendPlugins = <<>>
    /\ backendPlugins' = list
    /\ storeOp' = [op |-> "disk"]
    /\ UNCHANGED <<installed, loading, error, failedPlugins, pendingUpdates, runtime,
                   rtPlugins, pmGranted, tasks, loadOp>>
    /\ Quiet

RECURSIVE NextEnabled(_, _)
NextEnabled(list, idx) ==
    IF idx > Len(list) THEN idx
    ELSE IF list[idx].enabled THEN idx
    ELSE NextEnabled(list, idx + 1)

\* the loop of init from position idx to its next await, or to its end, where
\* checkAndApplyUpdates is started
InitLoop(st, t, idx) ==
    LET j == NextEnabled(t.list, idx)
    IN IF j <= Len(t.list)
       THEN [st |-> GrantFor(st, t.list[j]),
             task |-> [t EXCEPT !.pc = "load", !.idx = j],
             done |-> FALSE]
       ELSE [st |-> st,
             task |-> Task("check", "command", None, "init"),
             done |-> TRUE]

\* init() up to await invoke('get_plugin_dir'); the host calls it at start
InitStart ==
    /\ runtime = None
    /\ \A i \in 1..Len(tasks) : tasks[i].op # "init"
    /\ Len(tasks) < MaxTasks
    /\ SetST([ST EXCEPT !.loading = TRUE, !.error = None, !.failedPlugins = <<>>])
    /\ tasks' = Append(tasks, Task("init", "dir", None, "none"))
    /\ storeOp' = Step
    /\ UNCHANGED loadOp
    /\ Quiet

\* get_plugin_dir returns: the runtime is created, list_plugins is invoked
InitGotDir(i) ==
    /\ AtPc(i, "init", "dir")
    /\ \E ok \in BOOLEAN :
        IF ok
        THEN /\ SetST([ST EXCEPT !.runtime = "runtime", !.rtPlugins = <<>>,
                                 !.pmGranted = [n \in PluginNames |-> {}]])
             /\ tasks' = ReplaceTask(i, <<[tasks[i] EXCEPT !.pc = "list"]>>)
             /\ storeOp' = Step
        ELSE /\ SetST(InitFailed(ST))
             /\ tasks' = ReplaceTask(i, <<>>)
             /\ storeOp' = [op |-> "initFailed", at |-> "get_plugin_dir"]
    /\ UNCHANGED loadOp
    /\ Quiet

\* list_plugins returns: installed is set and the loop runs to its first load
InitGotList(i) ==
    /\ AtPc(i, "init", "list")
    /\ \E ok \in BOOLEAN :
        IF ok
        THEN LET st == [ST EXCEPT !.installed = backendPlugins, !.loading = FALSE]
                 r == InitLoop(st, [tasks[i] EXCEPT !.list = backendPlugins], 1)
             IN /\ SetST(r.st)
                /\ tasks' = ReplaceTask(i, <<r.task>>)
                /\ storeOp' = IF r.done
                              THEN [op |-> "initDone", list |-> backendPlugins, failed |-> {}]
                              ELSE Step
        ELSE /\ SetST(InitFailed(ST))
             /\ tasks' = ReplaceTask(i, <<>>)
             /\ storeOp' = [op |-> "initFailed", at |-> "list_plugins"]
    /\ UNCHANGED loadOp
    /\ Quiet

\* runtime.loadPlugin settles inside the loop: enable and clear, or record the
\* failure, and on to the next enabled plugin
InitLoaded(i) ==
    /\ AtPc(i, "init", "load")
    /\ \E ok \in BOOLEAN, reported \in BOOLEAN :
        LET t == tasks[i]
            plugin == t.list[t.idx]
            r == LoadPlugin(ST, plugin.manifest, ok, reported)
            st == IF r.result # "failed"
                  THEN [r.st EXCEPT !.rtPlugins = RuntimeEnable(@, plugin.name),
                                    !.failedPlugins = ClearPluginFailure(@, plugin.name)]
                  ELSE [r.st EXCEPT !.failedPlugins =
                            RecordPluginFailure(@, plugin.name, LoadError)]
            t2 == IF r.result = "failed"
                  THEN [t EXCEPT !.failed = @ \cup {plugin.name}] ELSE t
            n == InitLoop(st, t2, t.idx + 1)
        IN /\ SetST(n.st)
           /\ tasks' = ReplaceTask(i, <<n.task>>)
           /\ loadOp' = LoadObserved(ST, plugin.manifest, r, st)
           /\ storeOp' = IF n.done
                         THEN [op |-> "initDone", list |-> t2.list, failed |-> t2.failed]
                         ELSE Step
    /\ Quiet

\* checkAndApplyUpdates: check_plugin_updates returns
CheckUpdatesDone(i) ==
    /\ AtPc(i, "check", "command")
    /\ \E ok \in BOOLEAN :
        LET updates == CheckUpdatesCommand(backendPlugins)
        IN /\ SetST(IF ok THEN StoreUpdates(ST, updates) ELSE ST)
           /\ storeOp' = [op |-> "checked", ok |-> ok, updates |-> updates,
                          disk |-> backendPlugins, before |-> installed]
    /\ tasks' = ReplaceTask(i, <<>>)
    /\ UNCHANGED loadOp
    /\ Quiet

(* -------- enablePlugin, retryFailedPlugin ------------------------------ *)
\* what the caller of enablePlugin does once it has returned: installPlugin
\* and reinstallPlugin clear the failure record (enablePlugin never throws)
FinishEnable(st, t) ==
    IF t.via \in {"install", "reinstall"}
    THEN [st EXCEPT !.failedPlugins = ClearPluginFailure(@, t.name)]
    ELSE st

\* faulty variant: enabling also stores what the manifest declares as granted
MarkEnabledMerging(st, name) ==
    LET list == st.installed
    IN [st EXCEPT !.installed =
            MapNamed(list, name,
                     [k \in 1..Len(list) |->
                         [list[k] EXCEPT !.enabled = TRUE,
                                         !.granted_permissions =
                                             UniquePermissions(list[k])]])]

\* installed.map(p => p.name === name ? { ...p, enabled: true } : p)
MarkEnabled(st, name) ==
    LET list == st.installed
    IN [st EXCEPT !.installed =
            MapNamed(list, name,
                     [k \in 1..Len(list) |-> [list[k] EXCEPT !.enabled = TRUE]])]

\* enablePlugin(name) up to await invoke('enable_plugin')
EnablePlugin(name) ==
    /\ Len(tasks) < MaxTasks
    /\ tasks' = Append(tasks, Task("enable", "enable_command", name, "none"))
    /\ storeOp' = Step
    /\ UNCHANGED <<backendPlugins, installed, loading, error, failedPlugins,
                   pendingUpdates, runtime, rtPlugins, pmGranted, loadOp>>
    /\ Started

\* retryFailedPlugin(name)
RetryFailedPlugin(name) ==
    /\ Len(tasks) < MaxTasks
    /\ FindPlugin(failedPlugins, name) # 0
    /\ SetST([ST EXCEPT !.failedPlugins = ClearPluginFailure(@, name)])
    /\ tasks' = Append(tasks, Task("enable", "enable_command", name, "retry"))
    /\ storeOp' = Step
    /\ UNCHANGED loadOp
    /\ Started

\* enable_plugin returns: grant, then load when the runtime has no such plugin
EnableCommandDone(i) ==
    /\ tasks[i].pc = "enable_command"
    /\ \E ok \in BOOLEAN :
        LET t == tasks[i]
            name == t.name
            k == FindPlugin(installed, name)
        IN IF ~(ok /\ FindPlugin(backendPlugins, name) # 0)
           THEN /\ SetST(FinishEnable(
                      SetCriticalError(ST, "Failed to enable " \o name, CommandError), t))
                /\ tasks' = ReplaceTask(i, <<>>)
                /\ storeOp' = Finished(t, "enable_plugin")
           ELSE LET st0 == [ST EXCEPT !.backendPlugins = EnableCommand(@, name, TRUE)]
                IN IF k # 0 /\ runtime # None
                   THEN LET st1 == GrantFor(st0, installed[k])
                        IN IF ~GetPlugin(rtPlugins, name)
                           THEN /\ SetST(st1)
                                /\ tasks' = ReplaceTask(i,
                                      <<[t EXCEPT !.pc = "enable_load",
                                                  !.info = <<installed[k]>>]>>)
                                /\ storeOp' = Step
                           ELSE /\ SetST(FinishEnable(MarkEnabled(
                                      [st1 EXCEPT !.rtPlugins = RuntimeEnable(@, name)],
                                      name), t))
                                /\ tasks' = ReplaceTask(i, <<>>)
                                /\ storeOp' = Finished(t, "none")
                   ELSE /\ SetST(FinishEnable(MarkEnabled(st0, name), t))
                        /\ tasks' = ReplaceTask(i, <<>>)
                        /\ storeOp' = Finished(t, "none")
    /\ UNCHANGED loadOp
    /\ Quiet

\* runtime.loadPlugin settles inside enablePlugin
EnableLoaded(i) ==
    /\ tasks[i].pc = "enable_load"
    /\ \E ok \in BOOLEAN, reported \in BOOLEAN :
        LET t == tasks[i]
            name == t.name
            r == LoadPlugin(ST, t.info[1].manifest, ok, reported)
            st == IF r.result = "failed"
                  THEN SetCriticalError(
                          [r.st EXCEPT !.failedPlugins =
                              RecordPluginFailure(@, name, LoadError)],
                          "Failed to enable " \o name, LoadError)
                  ELSE MarkEnabled(
                          [r.st EXCEPT !.failedPlugins = ClearPluginFailure(@, name),
                                       !.rtPlugins = RuntimeEnable(@, name)],
                          name)
        IN /\ SetST(FinishEnable(st, t))
           /\ loadOp' = LoadObserved(ST, t.info[1].manifest, r, FinishEnable(st, t))
           /\ storeOp' = Finished(t, IF r.result = "failed" THEN "load" ELSE "none")
    /\ tasks' = ReplaceTask(i, <<>>)
    /\ Quiet

(* -------- installPlugin ------------------------------------------------ *)
\* installPlugin(plugin) up to await invoke('install_plugin')
InstallPlugin(name) ==
    /\ Len(tasks) < MaxTasks
    /\ IF ~HasRepo(name)
       THEN /\ SetST(SetCriticalError(ST, "Plugin has no repository URL", NoError))
            /\ UNCHANGED tasks
       ELSE /\ SetST([ST EXCEPT !.loading = TRUE, !.error = None])
            /\ tasks' = Append(tasks, Task("install", "command", name, "none"))
    /\ storeOp' = Step
    /\ UNCHANGED loadOp
    /\ Started

\* install_plugin returns: the entry is appended and enablePlugin is called
InstallCommandDone(i) ==
    /\ AtPc(i, "install", "command")
    /\ \E ok \in BOOLEAN :
        LET t == tasks[i]
            name == t.name
            bp == InstallCommand(backendPlugins, name)
        IN IF ok /\ FindPlugin(backendPlugins, name) = 0
           THEN /\ SetST([ST EXCEPT !.backendPlugins = bp,
                                    !.installed = Append(@, bp[Len(bp)]),
                                    !.loading = FALSE])
                /\ tasks' = ReplaceTask(i, <<[t EXCEPT !.pc = "enable_command",
                                                       !.via = "install"]>>)
                /\ storeOp' = Step
           ELSE /\ SetST(SetCriticalError(ST, "Failed to install " \o name, CommandError))
                /\ tasks' = ReplaceTask(i, <<>>)
                /\ storeOp' = Finished(t, "install_plugin")
    /\ UNCHANGED loadOp
    /\ Quiet

(* -------- reinstallPlugin ---------------------------------------------- *)
\* reinstallPlugin(name) up to await invoke('uninstall_plugin'); the snapshot
\* of the state is kept for the later update of installed
ReinstallPlugin(name) ==
    /\ Len(tasks) < MaxTasks
    /\ LET k == FindPlugin(installed, name)
       IN IF k = 0
          THEN /\ SetST(SetCriticalError(ST, "Plugin " \o name \o " not found", NoError))
               /\ UNCHANGED tasks
          ELSE IF ~installed[k].manifest.repo
          THEN /\ SetST(SetCriticalError(
                     ST, "Plugin " \o name \o " does not have a repository URL", NoError))
               /\ UNCHANGED tasks
          ELSE /\ SetST([ST EXCEPT !.loading = TRUE, !.error = None])
               /\ tasks' = Append(tasks, [Task("reinstall", "uninstall", name, "none")
                                             EXCEPT !.list = installed])
    /\ storeOp' = Step
    /\ UNCHANGED loadOp
    /\ Started

ReinstallFailed(st, name) == SetCriticalError(st, "Failed to reinstall " \o name, CommandError)

\* the catch of reinstallPlugin has run and awaits list_plugins
ReinstallCaught(t) == [op |-> "reinstallFailed", name |-> t.name]

\* faulty variant: the list list_plugins returned is dropped
RefreshInstalledKeep(st) == st

\* update(s => ({ ...s, installed })) with the list list_plugins returned
RefreshInstalled(st) == [st EXCEPT !.installed = st.backendPlugins]

\* uninstall_plugin returns inside reinstallPlugin
ReinstallUninstalled(i) ==
    /\ AtPc(i, "reinstall", "uninstall")
    /\ \E ok \in BOOLEAN :
        LET t == tasks[i]
        IN IF ok /\ FindPlugin(backendPlugins, t.name) # 0
           THEN /\ SetST([ST EXCEPT !.backendPlugins = UninstallCommand(@, t.name)])
                /\ tasks' = ReplaceTask(i, <<[t EXCEPT !.pc = "install"]>>)
                /\ storeOp' = Step
           ELSE /\ SetST(ReinstallFailed(ST, t.name))
                /\ tasks' = ReplaceTask(i, <<[t EXCEPT !.pc = "refresh"]>>)
                /\ storeOp' = ReinstallCaught(t)
    /\ UNCHANGED loadOp
    /\ Quiet

\* install_plugin returns inside reinstallPlugin: installed is rebuilt from the
\* snapshot taken at the start, and enablePlugin is called
ReinstallInstalled(i) ==
    /\ AtPc(i, "reinstall", "install")
    /\ \E ok \in BOOLEAN :
        LET t == tasks[i]
            bp == InstallCommand(backendPlugins, t.name)
        IN IF ok /\ FindPlugin(backendPlugins, t.name) = 0
           THEN /\ SetST([ST EXCEPT !.backendPlugins = bp,
                                    !.installed = Append(WithoutNamed(t.list, t.name),
                                                         bp[Len(bp)]),
                                    !.loading = FALSE])
                /\ tasks' = ReplaceTask(i, <<[t EXCEPT !.pc = "enable_command",
                                                       !.via = "reinstall",
                                                       !.list = <<>>]>>)
                /\ storeOp' = Step
           ELSE /\ SetST(ReinstallFailed(ST, t.name))
                /\ tasks' = ReplaceTask(i, <<[t EXCEPT !.pc = "refresh"]>>)
                /\ storeOp' = ReinstallCaught(t)
    /\ UNCHANGED loadOp
    /\ Quiet

\* list_plugins returns after a failed reinstall
ReinstallRefreshed(i) ==
    /\ AtPc(i, "reinstall", "refresh")
    /\ \E ok \in BOOLEAN :
        /\ SetST(IF ok THEN RefreshInstalled(ST) ELSE ST)
        /\ storeOp' = [op |-> "returned", of |-> "reinstall", name |-> tasks[i].name,
                       via |-> tasks[i].via, failure |-> "reinstall",
                       refreshed |-> ok, before |-> installed]
    /\ tasks' = ReplaceTask(i, <<>>)
    /\ UNCHANGED loadOp
    /\ Quiet

(* -------- updatePlugin ------------------------------------------------- *)
\* updatePlugin(name) up to await invoke('update_plugin')
UpdatePlugin(name) ==
    /\ Len(tasks) < MaxTasks
    /\ tasks' = Append(tasks, Task("update", "command", name, "none"))
    /\ storeOp' = Step
    /\ UNCHANGED <<backendPlugins, installed, loading, error, failedPlugins,
                   pendingUpdates, runtime, rtPlugins, pmGranted, loadOp>>
    /\ Started

UpdateFailed(st, name, err) == SetCriticalError(st, "Failed to update plugin " \o name, err)

\* update_plugin returns: the entry is replaced; an enabled plugin is unloaded
UpdateCommandDone(i) ==
    /\ AtPc(i, "update", "command")
    /\ \E ok \in BOOLEAN :
        LET t == tasks[i]
            name == t.name
            k == FindPlugin(backendPlugins, name)
            bp == UpdateCommand(backendPlugins, name)
        IN IF ok /\ k # 0 /\ backendPlugins[k].manifest.version < MaxVersion
           THEN /\ SetST([ST EXCEPT
                            !.backendPlugins = bp,
                            !.installed = MapNamed(installed, name,
                                             [j \in 1..Len(installed) |-> bp[k]])])
                /\ tasks' = ReplaceTask(i,
                      IF bp[k].enabled /\ runtime # None
                      THEN <<[t EXCEPT !.pc = "unload", !.info = <<bp[k]>>]>>
                      ELSE <<>>)
                /\ storeOp' = IF bp[k].enabled /\ runtime # None
                              THEN Step ELSE Finished(t, "none")
           ELSE /\ SetST(UpdateFailed(ST, name, CommandError))
                /\ tasks' = ReplaceTask(i, <<>>)
                /\ storeOp' = Finished(t, "update_plugin")
    /\ UNCHANGED loadOp
    /\ Quiet

\* runtime.unloadPlugin returns inside updatePlugin: the plugin's handle, slot
\* content and listeners are gone; the permissions are granted and the load starts
UpdateUnloaded(i) ==
    /\ AtPc(i, "update", "unload")
    /\ LET t == tasks[i]
           r == RemovePluginListenersMaps(listeners, listenerOwners, t.name)
       IN /\ SetST(GrantFor([ST EXCEPT !.rtPlugins = RuntimeUnload(@, t.name)], t.info[1]))
          /\ tasks' = ReplaceTask(i, <<[t EXCEPT !.pc = "load"]>>)
          /\ SetSM(RemovePluginContentSM(SM, containers, <<t.name>>))
          /\ slotOp' = [op |-> "removePluginContent", plugin |-> <<t.name>>,
                        had |-> \E c \in ClonesIn(slots, "mobile:home") :
                                   c.pluginName = <<t.name>>]
          /\ listeners' = r.listeners
          /\ listenerOwners' = r.owners
          /\ busOp' = [op |-> "removePluginListeners", plugin |-> t.name]
    /\ storeOp' = Step
    /\ UNCHANGED <<containers, onceWrappers, loadOp, calls>>
    /\ UNCHANGED otherThanStore

\* runtime.loadPlugin settles inside updatePlugin
UpdateLoaded(i) ==
    /\ AtPc(i, "update", "load")
    /\ \E ok \in BOOLEAN, reported \in BOOLEAN :
        LET t == tasks[i]
            name == t.name
            r == LoadPlugin(ST, t.info[1].manifest, ok, reported)
            st == IF r.result = "failed"
                  THEN UpdateFailed(
                          [r.st EXCEPT !.failedPlugins =
                              RecordPluginFailure(@, name, LoadError)],
                          name, LoadError)
                  ELSE [r.st EXCEPT !.rtPlugins = RuntimeEnable(@, name),
                                    !.failedPlugins = ClearPluginFailure(@, name)]
        IN /\ SetST(st)
           /\ loadOp' = LoadObserved(ST, t.info[1].manifest, r, st)
           /\ storeOp' = Finished(t, IF r.result = "failed" THEN "load" ELSE "none")
    /\ tasks' = ReplaceTask(i, <<>>)
    /\ Quiet

(* -------- uninstallPlugin ---------------------------------------------- *)
\* uninstallPlugin(name) up to its first await: permissionManager.clearCache
\* when there is a runtime (the task's via keeps whether the call was made), then
\* unloadPlugin when the runtime holds the plugin, else uninstall_plugin
UninstallPlugin(name) ==
    /\ Len(tasks) < MaxTasks
    /\ SetST([ST EXCEPT !.loading = TRUE, !.error = None])
    /\ tasks' = Append(tasks,
                       Task("uninstall",
                            IF runtime # None /\ GetPlugin(rtPlugins, name)
                            THEN "unload" ELSE "command",
                            name,
                            IF runtime # None THEN "clearCache" ELSE "noRuntime"))
    /\ storeOp' = Step
    /\ UNCHANGED loadOp
    /\ Started

\* runtime.unloadPlugin returns inside uninstallPlugin
UninstallUnloaded(i) ==
    /\ AtPc(i, "uninstall", "unload")
    /\ LET t == tasks[i]
           r == RemovePluginListenersMaps(listeners, listenerOwners, t.name)
       IN /\ SetST([ST EXCEPT !.rtPlugins = RuntimeUnload(@, t.name)])
          /\ tasks' = ReplaceTask(i, <<[t EXCEPT !.pc = "command"]>>)
          /\ SetSM(RemovePluginContentSM(SM, containers, <<t.name>>))
          /\ slotOp' = [op |-> "removePluginContent", plugin |-> <<t.name>>,
                        had |-> \E c \in ClonesIn(slots, "mobile:home") :
                                   c.pluginName = <<t.name>>]
          /\ listeners' = r.listeners
          /\ listenerOwners' = r.owners
          /\ busOp' = [op |-> "removePluginListeners", plugin |-> t.name]
    /\ storeOp' = Step
    /\ UNCHANGED <<containers, onceWrappers, loadOp, calls>>
    /\ UNCHANGED otherThanStore

\* uninstall_plugin returns: the entry leaves installed and the roster
UninstallCommandDone(i) ==
    /\ AtPc(i, "uninstall", "command")
    /\ \E ok \in BOOLEAN :
        LET t == tasks[i]
        IN IF ok /\ FindPlugin(backendPlugins, t.name) # 0
           THEN /\ SetST([ST EXCEPT
                            !.backendPlugins = UninstallCommand(@, t.name),
                            !.installed = WithoutNamed(@, t.name),
                            !.loading = FALSE,
                            !.failedPlugins = ClearPluginFailure(@, t.name)])
                /\ storeOp' = Finished(t, "none")
           ELSE /\ SetST(SetCriticalError(ST, "Failed to uninstall " \o t.name,
                                          CommandError))
                /\ storeOp' = Finished(t, "uninstall_plugin")
    /\ tasks' = ReplaceTask(i, <<>>)
    /\ UNCHANGED loadOp
    /\ Quiet

(* -------- disablePlugin ------------------------------------------------ *)
\* installed.map(p => p.name === name ? { ...p, enabled: false } : p)
MarkDisabled(st, name) ==
    LET list == st.installed
    IN [st EXCEPT !.installed =
            MapNamed(list, name,
                     [k \in 1..Len(list) |-> [list[k] EXCEPT !.enabled = FALSE]])]

\* disablePlugin(name) up to await invoke('disable_plugin')
DisablePlugin(name) ==
    /\ Len(tasks) < MaxTasks
    /\ tasks' = Append(tasks, Task("disable", "command", name, "none"))
    /\ storeOp' = Step
    /\ UNCHANGED <<backendPlugins, installed, loading, error, failedPlugins,
                   pendingUpdates, runtime, rtPlugins, pmGranted, loadOp>>
    /\ Started

\* disable_plugin returns: the runtime stops the plugin, the entry is marked
DisableCommandDone(i) ==
    /\ AtPc(i, "disable", "command")
    /\ \E ok \in BOOLEAN :
        LET t == tasks[i]
            name == t.name
        IN IF ok /\ FindPlugin(backendPlugins, name) # 0
           THEN /\ SetST(MarkDisabled(
                      [ST EXCEPT !.backendPlugins = EnableCommand(@, name, FALSE),
                                 !.rtPlugins = IF runtime # None
                                               THEN RuntimeDisable(@, name) ELSE @],
                      name))
                /\ storeOp' = Finished(t, "none")
           ELSE /\ SetST(SetCriticalError(ST, "Failed to disable " \o name, CommandError))
                /\ storeOp' = Finished(t, "disable_plugin")
    /\ tasks' = ReplaceTask(i, <<>>)
    /\ UNCHANGED loadOp
    /\ Quiet

(* -------- grantPermissions, revokePermissions -------------------------- *)
\* the permission lists the settings page passes
PermissionLists == {<<"ui:inject">>, <<"storage:local">>}

\* the call of grantPermissions or revokePermissions of task t returns
FinishedPermissions(t, failure) ==
    [op |-> "returned", of |-> t.op, name |-> t.name, via |-> t.via,
     failure |-> failure, permissions |-> t.list]

\* granted_permissions: [...new Set([...p.granted_permissions, ...permissions])]
MarkGranted(st, name, permissions) ==
    LET list == st.installed
    IN [st EXCEPT !.installed =
            MapNamed(list, name,
                     [k \in 1..Len(list) |->
                         [list[k] EXCEPT !.granted_permissions =
                             Dedupe(@ \o permissions)]])]

\* granted_permissions.filter(perm => !permissions.includes(perm))
MarkRevoked(st, name, permissions) ==
    LET list == st.installed
    IN [st EXCEPT !.installed =
            MapNamed(list, name,
                     [k \in 1..Len(list) |->
                         [list[k] EXCEPT !.granted_permissions =
                             SeqFilterIn(@, Range(@) \ Range(permissions))]])]

\* grantPermissions(name, permissions) up to await invoke('grant_permissions')
GrantPermissions(name, permissions) ==
    /\ Len(tasks) < MaxTasks
    /\ tasks' = Append(tasks, [Task("grant", "command", name, "none")
                                  EXCEPT !.list = permissions])
    /\ storeOp' = Step
    /\ UNCHANGED <<backendPlugins, installed, loading, error, failedPlugins,
                   pendingUpdates, runtime, rtPlugins, pmGranted, loadOp>>
    /\ Started

\* grant_permissions returns: the entry of installed gets the permissions
GrantCommandDone(i) ==
    /\ AtPc(i, "grant", "command")
    /\ \E ok \in BOOLEAN :
        LET t == tasks[i]
        IN IF ok /\ FindPlugin(backendPlugins, t.name) # 0
           THEN /\ SetST(MarkGranted(
                      [ST EXCEPT !.backendPlugins = GrantCommand(@, t.name, t.list)],
                      t.name, t.list))
                /\ storeOp' = FinishedPermissions(t, "none")
           ELSE /\ SetST(SetCriticalError(
                      ST, "Failed to grant permissions to " \o t.name, CommandError))
                /\ storeOp' = FinishedPermissions(t, "grant_permissions")
    /\ tasks' = ReplaceTask(i, <<>>)
    /\ UNCHANGED loadOp
    /\ Quiet

\* revokePermissions(name, permissions) up to await invoke('revoke_permissions')
RevokePermissions(name, permissions) ==
    /\ Len(tasks) < MaxTasks
    /\ tasks' = Append(tasks, [Task("revoke", "command", name, "none")
                                  EXCEPT !.list = permissions])
    /\ storeOp' = Step
    /\ UNCHANGED <<backendPlugins, installed, loading, error, failedPlugins,
                   pendingUpdates, runtime, rtPlugins, pmGranted, loadOp>>
    /\ Started

\* revoke_permissions returns: the entry of installed loses the permissions
RevokeCommandDone(i) ==
    /\ AtPc(i, "revoke", "command")
    /\ \E ok \in BOOLEAN :
        LET t == tasks[i]
        IN IF ok /\ FindPlugin(backendPlugins, t.name) # 0
           THEN /\ SetST(MarkRevoked(
                      [ST EXCEPT !.backendPlugins = RevokeCommand(@, t.name, t.list)],
                      t.name, t.list))
                /\ storeOp' = FinishedPermissions(t, "none")
           ELSE /\ SetST(SetCriticalError(
                      ST, "Failed to revoke permissions from " \o t.name, CommandError))
                /\ storeOp' = FinishedPermissions(t, "revoke_permissions")
    /\ tasks' = ReplaceTask(i, <<>>)
    /\ UNCHANGED loadOp
    /\ Quiet

(* -------- a loaded plugin uses its PluginContext ----------------------- *)
RegisteredContent(name) ==
    [pluginName |-> <<name>>,
     element |-> OrigElement(<<name>>, "playerbar:menu", 1),
     priority |-> 5]

\* ui.registerSlot('playerbar:menu', element) called by the code of an enabled
\* plugin: the permission manager is asked for ui:inject before addContent
PluginRegisterSlot(name) ==
    /\ \E k \in 1..Len(rtPlugins) : rtPlugins[k].name = name /\ rtPlugins[k].enabled
    /\ IF HasPermission(pmGranted, name, "ui:inject")
       THEN /\ FreeCloneIds(SM) # {}
            /\ SetSM(AddContentSM(SM, containers, "playerbar:menu", RegisteredContent(name)))
            /\ slotOp' = [op |-> "addContent", slot |-> "playerbar:menu",
                          plugin |-> <<name>>,
                          had |-> \E c \in Range(GetSlotContent(slots, "mobile:home")) :
                                     c.pluginName = <<name>>]
       ELSE UNCHANGED <<slots, shadow, mirrorElements, slotOp>>
    /\ storeOp' = [op |-> "registerSlot", name |-> name,
                   before |-> [slots |-> slots, shadow |-> shadow]]
    /\ UNCHANGED <<backendPlugins, installed, loading, error, failedPlugins,
                   pendingUpdates, runtime, rtPlugins, pmGranted, tasks, calls, loadOp>>
    /\ UNCHANGED <<containers, busVars>>
    /\ UNCHANGED otherThanStore

\* The store at start-up: init over what an earlier session installed, and the
\* loaded plugins registering slot content.
NextInit ==
    \/ \E list \in PreviousSessions : InstalledOnDisk(list)
    \/ InitStart
    \/ \E i \in 1..Len(tasks) : InitGotDir(i)
    \/ \E i \in 1..Len(tasks) : InitGotList(i)
    \/ \E i \in 1..Len(tasks) : InitLoaded(i)
    \/ \E i \in 1..Len(tasks) : CheckUpdatesDone(i)
    \/ \E n \in PluginNames : PluginRegisterSlot(n)

\* the plugin the user operates on
Operated == {"A"}

\* The store's operations that load plugins, interleaved at their awaits.
NextStore ==
    \/ \E list \in PreviousSessions : InstalledOnDisk(list)
    \/ InitStart
    \/ \E i \in 1..Len(tasks) : InitGotDir(i)
    \/ \E i \in 1..Len(tasks) : InitGotList(i)
    \/ \E i \in 1..Len(tasks) : InitLoaded(i)
    \/ \E i \in 1..Len(tasks) : CheckUpdatesDone(i)
    \/ \E n \in Operated : EnablePlugin(n)
    \/ \E n \in Operated : RetryFailedPlugin(n)
    \/ \E i \in 1..Len(tasks) : EnableCommandDone(i)
    \/ \E i \in 1..Len(tasks) : EnableLoaded(i)
    \/ \E n \in Operated : InstallPlugin(n)
    \/ \E i \in 1..Len(tasks) : InstallCommandDone(i)
    \/ \E n \in Operated : ReinstallPlugin(n)
    \/ \E i \in 1..Len(tasks) : ReinstallUninstalled(i)
    \/ \E i \in 1..Len(tasks) : ReinstallInstalled(i)
    \/ \E i \in 1..Len(tasks) : ReinstallRefreshed(i)
    \/ \E n \in Operated : UpdatePlugin(n)
    \/ \E i \in 1..Len(tasks) : UpdateCommandDone(i)
    \/ \E i \in 1..Len(tasks) : UpdateUnloaded(i)
    \/ \E i \in 1..Len(tasks) : UpdateLoaded(i)
    \/ \E n \in Operated : UninstallPlugin(n)
    \/ \E i \in 1..Len(tasks) : UninstallUnloaded(i)
    \/ \E i \in 1..Len(tasks) : UninstallCommandDone(i)

\* The settings page: permissions, enabling, disabling and updating of the
\* plugins a session started with.
NextPerm ==
    \/ \E list \in PreviousSessions : InstalledOnDisk(list)
    \/ InitStart
    \/ \E i \in 1..Len(tasks) : InitGotDir(i)
    \/ \E i \in 1..Len(tasks) : InitGotList(i)
    \/ \E i \in 1..Len(tasks) : InitLoaded(i)
    \/ \E i \in 1..Len(tasks) : CheckUpdatesDone(i)
    \/ \E n \in PluginNames, ps \in PermissionLists : GrantPermissions(n, ps)
    \/ \E i \in 1..Len(tasks) : GrantCommandDone(i)
    \/ \E n \in PluginNames, ps \in PermissionLists : RevokePermissions(n, ps)
    \/ \E i \in 1..Len(tasks) : RevokeCommandDone(i)
    \/ \E n \in PluginNames : EnablePlugin(n)
    \/ \E i \in 1..Len(tasks) : EnableCommandDone(i)
    \/ \E i \in 1..Len(tasks) : EnableLoaded(i)
    \/ \E n \in PluginNames : DisablePlugin(n)
    \/ \E i \in 1..Len(tasks) : DisableCommandDone(i)
    \/ \E n \in PluginNames : UpdatePlugin(n)
    \/ \E i \in 1..Len(tasks) : UpdateCommandDone(i)
    \/ \E i \in 1..Len(tasks) : UpdateUnloaded(i)
    \/ \E i \in 1..Len(tasks) : UpdateLoaded(i)

\* the plugin another call changes while A is reinstalled
Bystanders == {"B"}

\* reinstallPlugin of A while the settings page works on another plugin.
NextReinstall ==
    \/ \E list \in PreviousSessions : InstalledOnDisk(list)
    \/ InitStart
    \/ \E i \in 1..Len(tasks) : InitGotDir(i)
    \/ \E i \in 1..Len(tasks) : InitGotList(i)
    \/ \E i \in 1..Len(tasks) : InitLoaded(i)
    \/ \E i \in 1..Len(tasks) : CheckUpdatesDone(i)
    \/ \E n \in Operated : ReinstallPlugin(n)
    \/ \E i \in 1..Len(tasks) : ReinstallUninstalled(i)
    \/ \E i \in 1..Len(tasks) : ReinstallInstalled(i)
    \/ \E i \in 1..Len(tasks) : ReinstallRefreshed(i)
    \/ \E i \in 1..Len(tasks) : EnableCommandDone(i)
    \/ \E i \in 1..Len(tasks) : EnableLoaded(i)
    \/ \E n \in Bystanders : DisablePlugin(n)
    \/ \E i \in 1..Len(tasks) : DisableCommandDone(i)
    \/ \E n \in Bystanders, ps \in PermissionLists : GrantPermissions(n, ps)
    \/ \E i \in 1..Len(tasks) : GrantCommandDone(i)

(***************************************************************************)
(* Marketplace cache (src/src/lib/plugins/marketplace.ts)                  *)
(***************************************************************************)
\* the urls callers pass: raw manifest urls, a repository url that is
\* rewritten to the raw manifest url u1, and a url that is not http(s)
ManifestUrls == {<<"raw", "u1">>, <<"raw", "u2">>, <<"raw", "u3">>}
CommunityUrls == {<<"raw", "u1">>, <<"raw", "u2">>, <<"github", "u1">>, <<"ftp", "u1">>}

InitCache ==
    /\ cache = <<>>
    /\ now = 0
    /\ fetches = <<>>
    /\ cacheOp = [op |-> "new"]

\* this.cache.get(url): the position of the entry, 0 when absent
RECURSIVE CacheIndexFrom(_, _, _)
CacheIndexFrom(c, url, i) ==
    IF i > Len(c) THEN 0
    ELSE IF c[i].url = url THEN i
    ELSE CacheIndexFrom(c, url, i + 1)

CacheIndex(c, url) == CacheIndexFrom(c, url, 1)

\* this.cache.delete(url)
CacheDeleteMap(c, url) == SeqFilterIn(c, {e \in Range(c) : e.url # url})

\* faulty variant: an entry never expires
ExpiredNever(entry, t) == FALSE

\* Date.now() - entry.timestamp > CACHE_TTL
Expired(entry, t) == t - entry.timestamp > CACHE_TTL

\* get(url)
CacheGetMap(c, url, t) ==
    LET i == CacheIndex(c, url)
    IN IF i = 0 THEN [cache |-> c, result |-> Null]
       ELSE IF Expired(c[i], t) THEN [cache |-> CacheDeleteMap(c, url), result |-> Null]
       ELSE [cache |-> c, result |-> c[i].data]

\* has(url)
CacheHasMap(c, url, t) ==
    LET i == CacheIndex(c, url)
    IN IF i = 0 THEN [cache |-> c, result |-> FALSE]
       ELSE IF Expired(c[i], t) THEN [cache |-> CacheDeleteMap(c, url), result |-> FALSE]
       ELSE [cache |-> c, result |-> TRUE]

\* cleanExpired()
CleanExpiredMap(c, t) == SeqFilterIn(c, {e \in Range(c) : ~Expired(e, t)})

\* evictOldest(): the forEach over the entries in insertion order, starting
\* from oldestTime = Date.now() and oldestUrl = null
RECURSIVE OldestFrom(_, _, _, _)
OldestFrom(c, i, oldestTime, oldestUrl) ==
    IF i > Len(c) THEN oldestUrl
    ELSE IF c[i].timestamp < oldestTime
         THEN OldestFrom(c, i + 1, c[i].timestamp, <<c[i].url>>)
         ELSE OldestFrom(c, i + 1, oldestTime, oldestUrl)

EvictOldest(c, t) ==
    LET oldestUrl == OldestFrom(c, 1, t, <<>>)
    IN IF oldestUrl # <<>> THEN CacheDeleteMap(c, oldestUrl[1]) ELSE c

\* Map.set: a present key keeps its position
PutEntry(c, entry) ==
    LET i == CacheIndex(c, entry.url)
    IN IF i = 0 THEN Append(c, entry) ELSE [c EXCEPT ![i] = entry]

\* set(url, data)
CacheSetMap(c, url, data, t) ==
    LET room == IF Len(c) >= MAX_CACHE_SIZE THEN EvictOldest(c, t) ELSE c
    IN PutEntry(room, [url |-> url, data |-> data, timestamp |-> t])

\* what response.json() yields: a manifest the schema accepts or rejects
ValidManifest == <<"manifest", "valid">>
InvalidManifest == <<"manifest", "invalid">>

\* the MarketplacePlugin fetchCommunityPlugin builds from a manifest
CommunityPlugin(url, manifestUrl, manifest) == <<"plugin", manifestUrl, url, manifest>>

EntryBefore(url) ==
    LET i == CacheIndex(cache, url)
    IN IF i = 0 THEN <<>> ELSE <<cache[i]>>

\* the clock advances
Tick ==
    /\ now < MaxTime
    /\ now' = now + 1
    /\ cacheOp' = [op |-> "tick"]
    /\ UNCHANGED <<cache, fetches>>
    /\ UNCHANGED otherThanCache

CacheGet(url) ==
    LET r == CacheGetMap(cache, url, now)
    IN /\ cache' = r.cache
       /\ cacheOp' = [op |-> "get", url |-> url, time |-> now,
                      entry |-> EntryBefore(url), result |-> r.result]
       /\ UNCHANGED <<now, fetches>>
       /\ UNCHANGED otherThanCache

CacheHas(url) ==
    LET r == CacheHasMap(cache, url, now)
    IN /\ cache' = r.cache
       /\ cacheOp' = [op |-> "has", url |-> url, time |-> now,
                      entry |-> EntryBefore(url), result |-> r.result]
       /\ UNCHANGED <<now, fetches>>
       /\ UNCHANGED otherThanCache

CacheSet(url) ==
    /\ cache' = CacheSetMap(cache, url, CommunityPlugin(url, url, ValidManifest), now)
    /\ cacheOp' = [op |-> "set", url |-> url, time |-> now, before |-> cache]
    /\ UNCHANGED <<now, fetches>>
    /\ UNCHANGED otherThanCache

CacheDelete(url) ==
    /\ cache' = CacheDeleteMap(cache, url)
    /\ cacheOp' = [op |-> "delete", url |-> url]
    /\ UNCHANGED <<now, fetches>>
    /\ UNCHANGED otherThanCache

\* the interval timer fires
CleanExpired ==
    /\ cache' = CleanExpiredMap(cache, now)
    /\ cacheOp' = [op |-> "cleanExpired"]
    /\ UNCHANGED <<now, fetches>>
    /\ UNCHANGED otherThanCache

NextCache ==
    \/ Tick
    \/ \E u \in ManifestUrls : CacheGet(u)
    \/ \E u \in ManifestUrls : CacheHas(u)
    \/ \E u \in ManifestUrls : CacheSet(u)
    \/ \E u \in ManifestUrls : CacheDelete(u)
    \/ CleanExpired

\* the github repository url is rewritten to the raw manifest url
ManifestUrl(url) == IF url[1] = "github" THEN <<"raw", url[2]>> ELSE url

\* isValidUrl: only http: and https: urls pass
IsValidUrl(url) == url[1] \in {"raw", "github"}

\* validateManifest of ./schema
ValidateManifest(manifest) == manifest = ValidManifest

\* how fetchWithTimeout and response.json() can end: an ok response carrying
\* a manifest, a response that is not ok, an abort by the timeout, or a body
\* that is not JSON
Responses ==
    {<<"ok", ValidManifest>>, <<"ok", InvalidManifest>>, <<"notOk">>,
     <<"aborted">>, <<"badJson">>}

\* faulty variant: an ok response is cached whatever its manifest
SettleCacheAnyOk(c, f, response, t) ==
    IF response[1] = "ok"
    THEN CacheSetMap(c, f.manifestUrl,
                     CommunityPlugin(f.url, f.manifestUrl, response[2]), t)
    ELSE c

\* the cache after the try block of fetchCommunityPlugin has run on response
SettleCache(c, f, response, t) ==
    IF response[1] = "ok" /\ ValidateManifest(response[2])
    THEN CacheSetMap(c, f.manifestUrl,
                     CommunityPlugin(f.url, f.manifestUrl, response[2]), t)
    ELSE c

\* what the call returns for response
SettleResult(f, response) ==
    IF response[1] = "ok" /\ ValidateManifest(response[2])
    THEN CommunityPlugin(f.url, f.manifestUrl, response[2])
    ELSE Null

\* fetchCommunityPlugin(url) up to its await: an invalid url and a cache hit
\* return at once, a miss sends the request
FetchCommunityPlugin(url) ==
    LET manifestUrl == ManifestUrl(url)
        r == CacheGetMap(cache, manifestUrl, now)
    IN IF ~IsValidUrl(manifestUrl)
       THEN /\ cacheOp' = [op |-> "fetchInvalidUrl", url |-> url, result |-> Null]
            /\ UNCHANGED <<cache, now, fetches>>
            /\ UNCHANGED otherThanCache
       ELSE IF r.result # Null
       THEN /\ cache' = r.cache
            /\ cacheOp' = [op |-> "fetchCached", url |-> url,
                           manifestUrl |-> manifestUrl, time |-> now,
                           entry |-> EntryBefore(manifestUrl), result |-> r.result]
            /\ UNCHANGED <<now, fetches>>
            /\ UNCHANGED otherThanCache
       ELSE /\ Len(fetches) < MaxFetches
            /\ cache' = r.cache
            /\ fetches' = Append(fetches, [url |-> url, manifestUrl |-> manifestUrl])
            /\ cacheOp' = [op |-> "fetchSent", url |-> url,
                           manifestUrl |-> manifestUrl]
            /\ UNCHANGED now
            /\ UNCHANGED otherThanCache

\* the request of the i-th waiting call ends with response
FetchSettled(i, response) ==
    /\ i \in 1..Len(fetches)
    /\ cache' = SettleCache(cache, fetches[i], response, now)
    /\ fetches' = [j \in 1..(Len(fetches) - 1) |->
                     IF j < i THEN fetches[j] ELSE fetches[j + 1]]
    /\ cacheOp' = [op |-> "fetchSettled", url |-> fetches[i].url,
                   manifestUrl |-> fetches[i].manifestUrl,
                   response |-> response,
                   result |-> SettleResult(fetches[i], response),
                   before |-> cache]
    /\ UNCHANGED now
    /\ UNCHANGED otherThanCache

\* clearPluginCache
ClearPluginCache ==
    /\ cache # <<>>
    /\ cache' = <<>>
    /\ cacheOp' = [op |-> "clear"]
    /\ UNCHANGED <<now, fetches>>
    /\ UNCHANGED otherThanCache

NextFetch ==
    \/ Tick
    \/ \E u \in CommunityUrls : FetchCommunityPlugin(u)
    \/ \E i \in 1..MaxFetches : \E response \in Responses : FetchSettled(i, response)
    \/ CleanExpired
    \/ ClearPluginCache


(***************************************************************************)
(* Specifications                                                          *)
(***************************************************************************)
(***************************************************************************)
(* lyrics store: fetchLyricsForTrack and the track subscription            *)
(***************************************************************************)
Tracks == {"T1", "T2"}

\* lyricsData.set(null)
NoLyrics == [track |-> None, source |-> None]

InitLyrics ==
    /\ currentTrack = None
    /\ currentFetchId = 0
    /\ lyricsData = NoLyrics
    /\ lyricsLoading = FALSE
    /\ lyricsError = None
    /\ unsubscribe = FALSE
    /\ lrcFiles = {}
    /\ lyricsFetches = {}
    /\ lyricsOp = [op |-> "new"]

\* faulty variant of the comparison: every fetch counts as the current one
IsCurrentAlways(fetchId, current) == TRUE

\* fetchId === currentFetchId
IsCurrent(fetchId, current) == fetchId = current

\* fetchLyricsForTrack up to its first await, for a track that is not null
StartFetch(track) ==
    /\ currentFetchId < MaxFetchId
    /\ currentFetchId' = currentFetchId + 1
    /\ lyricsLoading' = TRUE
    /\ lyricsError' = None
    /\ lyricsFetches' = lyricsFetches \cup
           {[fetchId |-> currentFetchId + 1, track |-> track, pc |-> "cache"]}
    /\ lyricsOp' = [op |-> "fetch", fetchId |-> currentFetchId + 1, track |-> track]
    /\ UNCHANGED <<lyricsData, lrcFiles>>

\* the subscriber's else branch: the track is null
TrackCleared ==
    /\ lyricsData' = NoLyrics
    /\ lyricsError' = None
    /\ lyricsOp' = [op |-> "trackCleared"]
    /\ UNCHANGED <<currentFetchId, lyricsLoading, lrcFiles, lyricsFetches>>

\* the callback initLyricsSync passes to currentTrack.subscribe
TrackChanged(track) ==
    IF track # None THEN StartFetch(track) ELSE TrackCleared

\* initLyricsSync(): subscribe calls the callback at once with the current value
InitLyricsSync ==
    /\ ~unsubscribe
    /\ unsubscribe' = TRUE
    /\ TrackChanged(currentTrack)
    /\ UNCHANGED currentTrack
    /\ UNCHANGED otherThanLyrics

\* destroyLyricsSync()
DestroyLyricsSync ==
    /\ unsubscribe
    /\ unsubscribe' = FALSE
    /\ lyricsOp' = [op |-> "destroy"]
    /\ UNCHANGED <<currentTrack, currentFetchId, lyricsData, lyricsLoading, lyricsError,
                   lrcFiles, lyricsFetches>>
    /\ UNCHANGED otherThanLyrics

\* the player sets currentTrack; a set of null over null notifies nobody
SetTrack(track) ==
    /\ ~(track = None /\ currentTrack = None)
    /\ currentTrack' = track
    /\ IF unsubscribe
          THEN TrackChanged(track)
          ELSE /\ lyricsOp' = [op |-> "setTrack", track |-> track]
               /\ UNCHANGED <<currentFetchId, lyricsData, lyricsLoading, lyricsError,
                              lrcFiles, lyricsFetches>>
    /\ UNCHANGED unsubscribe
    /\ UNCHANGED otherThanLyrics

\* fetchLyricsForTrack() called directly
FetchLyricsForTrack ==
    /\ IF currentTrack = None
          THEN /\ lyricsData' = NoLyrics
               /\ lyricsOp' = [op |-> "fetch", fetchId |-> 0, track |-> None]
               /\ UNCHANGED <<currentFetchId, lyricsLoading, lyricsError, lrcFiles,
                              lyricsFetches>>
          ELSE StartFetch(currentTrack)
    /\ UNCHANGED <<currentTrack, unsubscribe>>
    /\ UNCHANGED otherThanLyrics

\* what a settled step of a fetch records
Settled(f, step, outcome) ==
    [op |-> step, fetchId |-> f.fetchId, track |-> f.track, outcome |-> outcome,
     current |-> f.fetchId = currentFetchId]

\* loadLrcFromCache settles: the file's content, or null when there is no file
\* or the command fails
CacheLoaded(f) ==
    /\ f \in lyricsFetches
    /\ f.pc = "cache"
    /\ \E cached \in (IF f.track \in lrcFiles THEN BOOLEAN ELSE {FALSE}) :
          /\ IF cached /\ IsCurrent(f.fetchId, currentFetchId)
                THEN /\ lyricsData' = [track |-> f.track, source |-> "cache"]
                     /\ lyricsLoading' = FALSE
                     /\ lyricsFetches' = lyricsFetches \ {f}
                ELSE /\ lyricsFetches' = (lyricsFetches \ {f}) \cup {[f EXCEPT !.pc = "api"]}
                     /\ UNCHANGED <<lyricsData, lyricsLoading>>
          /\ lyricsOp' = Settled(f, "cacheLoaded", IF cached THEN "cached" ELSE "miss")
    /\ UNCHANGED <<currentTrack, currentFetchId, lyricsError, unsubscribe, lrcFiles>>
    /\ UNCHANGED otherThanLyrics

\* lyricsManager.fetchLyrics settles with a result, with null, or the try block throws;
\* saveLrcToCache swallows a failure of save_lrc_file
ApiSettled(f) ==
    /\ f \in lyricsFetches
    /\ f.pc = "api"
    /\ lyricsFetches' = lyricsFetches \ {f}
    /\ \E outcome \in {"found", "none", "throws"}, saved \in BOOLEAN :
          /\ lyricsOp' = Settled(f, "apiSettled", outcome)
          /\ IF ~IsCurrent(f.fetchId, currentFetchId)
                THEN UNCHANGED <<lyricsData, lyricsLoading, lyricsError, lrcFiles>>
                ELSE /\ lyricsLoading' = FALSE
                     /\ lyricsData' = CASE outcome = "found" ->
                                               [track |-> f.track, source |-> "api"]
                                        [] outcome = "none" -> NoLyrics
                                        [] OTHER -> lyricsData
                     /\ lyricsError' = CASE outcome = "found" -> lyricsError
                                         [] outcome = "none" -> "No lyrics found"
                                         [] OTHER -> "Failed to fetch lyrics"
                     /\ lrcFiles' = IF outcome = "found" /\ saved
                                       THEN lrcFiles \cup {f.track} ELSE lrcFiles
    /\ UNCHANGED <<currentTrack, currentFetchId, unsubscribe>>
    /\ UNCHANGED otherThanLyrics

\* lyricsStore.clearLyrics()
ClearLyrics ==
    /\ lyricsData' = NoLyrics
    /\ lyricsError' = None
    /\ lyricsLoading' = FALSE
    /\ lyricsOp' = [op |-> "clearLyrics"]
    /\ UNCHANGED <<currentTrack, currentFetchId, unsubscribe, lrcFiles, lyricsFetches>>
    /\ UNCHANGED otherThanLyrics

\* lyricsStore.clearCurrentTrackCache() up to its await; with no track it does nothing
ClearCurrentTrackCache ==
    /\ currentTrack # None
    /\ \A f \in lyricsFetches : f.pc # "delete"
    /\ lyricsFetches' = lyricsFetches \cup
           {[fetchId |-> 0, track |-> currentTrack, pc |-> "delete"]}
    /\ lyricsOp' = [op |-> "clearCache", track |-> currentTrack]
    /\ UNCHANGED <<currentTrack, currentFetchId, lyricsData, lyricsLoading, lyricsError,
                   unsubscribe, lrcFiles>>
    /\ UNCHANGED otherThanLyrics

\* deleteLrcFromCache settles; the rest of clearCurrentTrackCache runs
CacheDeleted(f) ==
    /\ f \in lyricsFetches
    /\ f.pc = "delete"
    /\ lyricsFetches' = lyricsFetches \ {f}
    /\ \E deleted \in BOOLEAN :
          lrcFiles' = IF deleted THEN lrcFiles \ {f.track} ELSE lrcFiles
    /\ lyricsData' = NoLyrics
    /\ lyricsError' = None
    /\ lyricsOp' = [op |-> "cacheDeleted", track |-> f.track]
    /\ UNCHANGED <<currentTrack, currentFetchId, lyricsLoading, unsubscribe>>
    /\ UNCHANGED otherThanLyrics

FetchRecords ==
    [fetchId : 0..MaxFetchId, track : Tracks, pc : {"cache", "api", "delete"}]

NextLyrics ==
    \/ InitLyricsSync
    \/ DestroyLyricsSync
    \/ \E track \in Tracks \cup {None} : SetTrack(track)
    \/ FetchLyricsForTrack
    \/ \E f \in FetchRecords : CacheLoaded(f)
    \/ \E f \in FetchRecords : ApiSettled(f)
    \/ ClearLyrics
    \/ ClearCurrentTrackCache
    \/ \E f \in FetchRecords : CacheDeleted(f)

Init ==
    /\ InitBus
    /\ InitReq
    /\ InitSlots
    /\ InitStorage
    /\ InitStore
    /\ InitCache
    /\ InitLyrics

SpecBus == Init /\ [][NextBus]_vars

SpecReq == Init /\ [][NextReq]_vars

SpecSlots == Init /\ [][NextSlots]_vars

SpecRender == Init /\ [][NextRender]_vars

SpecStorage == Init /\ [][NextStorage]_vars

SpecBatch == Init /\ [][NextBatch]_vars

SpecInit == Init /\ [][NextInit]_vars

SpecStore == Init /\ [][NextStore]_vars

SpecPerm == Init /\ [][NextPerm]_vars

SpecNames == Init /\ [][NextNames]_vars

SpecReinstall == Init /\ [][NextReinstall]_vars

SpecCache == Init /\ [][NextCache]_vars

SpecFetch == Init /\ [][NextFetch]_vars

SpecLyrics == Init /\ [][NextLyrics]_vars

(***************************************************************************)
(* Claims about the UI slot manager                                        *)
(***************************************************************************)
\* the entries of plugin p in a content list, by index
IndicesOf(contents, p) == {i \in DOMAIN contents : contents[i].pluginName = p}

\* the element a clone was cloned from, and the slot and plugin of that element
ClonedFrom(clone) == clone[3]

MirrorTargetsOf(slotName) ==
    IF MapHas(SLOT_MIRRORS, slotName) THEN Range(SLOT_MIRRORS[slotName]) ELSE {}

\* C6: after addContent to a mirror-source slot for plugin P, each mirror target
\* holds exactly one entry of P, which is a clone of the content just added with
\* the same priority, also when P had content in the target before.
C6_OneCloneAfterAdd ==
    (slotOp.op = "addContent" /\ MapHas(SLOT_MIRRORS, slotOp.slot)) =>
        LET src == GetSlotContent(slots, slotOp.slot)
        IN /\ Cardinality(IndicesOf(src, slotOp.plugin)) = 1
           /\ \A i \in IndicesOf(src, slotOp.plugin) :
                \A t \in MirrorTargetsOf(slotOp.slot) :
                    LET tgt == GetSlotContent(slots, t)
                    IN /\ Cardinality(IndicesOf(tgt, slotOp.plugin)) = 1
                       /\ \A j \in IndicesOf(tgt, slotOp.plugin) :
                            /\ IsClone(tgt[j].element)
                            /\ ClonedFrom(tgt[j].element) = src[i].element
                            /\ tgt[j].priority = src[i].priority
                       /\ Cardinality({j \in DOMAIN tgt : IsClone(tgt[j].element)
                              /\ ClonedFrom(tgt[j].element)[2] = slotOp.plugin}) = 1

\* C6 witness: content of priority 5 was added to playerbar:menu for a plugin
\* that already had an entry in mobile:home, which now holds the clone
C6_Witness ==
    /\ slotOp.op = "addContent"
    /\ slotOp.slot = "playerbar:menu"
    /\ slotOp.had
    /\ \E c \in ClonesIn(slots, "mobile:home") :
          c.pluginName = slotOp.plugin /\ c.priority = 5

\* C7: after removeContent(sourceSlot, P) no mirror target holds a clone of P's
\* content of that slot; after removePluginContent(P) no slot holds an entry
\* owned by P.
C7_RemovalRemovesClones ==
    /\ (slotOp.op = "removeContent" /\ MapHas(SLOT_MIRRORS, slotOp.slot)) =>
          \A t \in MirrorTargetsOf(slotOp.slot) :
              ~\E c \in ClonesIn(slots, t) :
                  /\ ClonedFrom(c.element)[2] = slotOp.plugin
                  /\ ClonedFrom(c.element)[3] = slotOp.slot
    /\ slotOp.op = "removePluginContent" =>
          \A s \in DOMAIN slots : IndicesOf(slots[s], slotOp.plugin) = {}

\* C7 witness: removeContent on the mirror source for a plugin whose clone was
\* in the mirror target
C7_Witness ==
    /\ slotOp.op = "removeContent"
    /\ slotOp.slot = "playerbar:menu"
    /\ slotOp.had

\* the keys under which mirrorElements records element el for slot t
KeysRecording(t, el) ==
    {k \in DOMAIN mirrorElements :
        \E i \in DOMAIN mirrorElements[k] :
            mirrorElements[k][i] = [slot |-> t, element |-> el]}

AllClones ==
    UNION {{c.element : c \in ClonesIn(slots, t)} : t \in SlotNames}
    \cup {en.element : en \in UNION {Range(mirrorElements[k]) : k \in DOMAIN mirrorElements}}

\* C8: a clone is in a mirror target slot if and only if mirrorElements records
\* it under exactly one (sourceSlot, pluginName) key whose source slot holds
\* content of that plugin.
C8_BookkeepingAgrees ==
    \A t \in SlotNames, el \in AllClones :
        (\E c \in ClonesIn(slots, t) : c.element = el) <=>
            /\ Cardinality(KeysRecording(t, el)) = 1
            /\ \A k \in KeysRecording(t, el) :
                  IndicesOf(GetSlotContent(slots, k[1]), SubSeq(k, 3, Len(k))) # {}

\* C9: every clone a mirror target holds was cloned from the element its plugin
\* has registered in the source slot, and a click on the clone runs click() on
\* that element.
C9_CloneForwardsToOriginal ==
    /\ \A t \in SlotNames : \A c \in ClonesIn(slots, t) :
          \E src \in DOMAIN SLOT_MIRRORS :
              /\ t \in MirrorTargetsOf(src)
              /\ \E x \in Range(GetSlotContent(slots, src)) :
                    x.pluginName = c.pluginName /\ x.element = ClonedFrom(c.element)
    /\ slotOp.op = "click" => slotOp.activated = ClonedFrom(slotOp.element)

\* C9 witness: a clone of the second element a plugin registered in the source
\* slot was clicked
C9_Witness ==
    /\ slotOp.op = "click"
    /\ slotOp.activated = OrigElement(<<"p">>, "playerbar:menu", 2)
    /\ \E x \in Range(GetSlotContent(slots, "playerbar:menu")) : x.element = slotOp.activated

(***************************************************************************)
(* Claims about the plugin store and the runtime                           *)
(***************************************************************************)
\* the handles the runtime holds for a plugin name
LoadedInstances(name) == {k \in 1..Len(rtPlugins) : rtPlugins[k].name = name}

RecordPermissions(plugin) ==
    Range(plugin.granted_permissions) \cup Range(plugin.manifest.permissions)

\* C4: a loaded and enabled plugin whose entry holds no ui:inject calls
\* ui.registerSlot: the call never reaches the slot manager, every slot's content
\* is what it was and no slot holds content of that plugin.
C4_RegisterSlotNeedsUiInject ==
    (/\ storeOp.op = "registerSlot"
     /\ \E k \in 1..Len(backendPlugins) :
           /\ backendPlugins[k].name = storeOp.name
           /\ "ui:inject" \notin RecordPermissions(backendPlugins[k]))
    => /\ slots = storeOp.before.slots
       /\ shadow = storeOp.before.shadow
       /\ \A s \in DOMAIN slots : \A c \in Range(slots[s]) : c.pluginName # <<storeOp.name>>

\* B, without ui:inject, has called registerSlot while A's content is in the slots
C4_Witness ==
    /\ storeOp.op = "registerSlot"
    /\ storeOp.name = "B"
    /\ "ui:inject" \notin pmGranted["B"]
    /\ \E h \in Range(rtPlugins) : h.name = "B" /\ h.enabled
    /\ \E s \in DOMAIN slots : \E c \in Range(slots[s]) : c.pluginName = <<"A">>

\* the records of failedPlugins for a plugin name
FailuresOf(name) == {j \in 1..Len(failedPlugins) : failedPlugins[j].name = name}

\* C5: when init has gone through its list and the load of some plugin failed,
\* every other enabled plugin of the list, before or after it, holds its
\* permissions and is loaded and enabled, and each failed plugin has exactly one
\* record in failedPlugins, with a non-empty message.
C5_InitIsolatesFailure ==
    (storeOp.op = "initDone" /\ storeOp.failed # {}) =>
        /\ \A a \in storeOp.failed :
              /\ Cardinality(FailuresOf(a)) = 1
              /\ \A j \in FailuresOf(a) : Len(failedPlugins[j].error) > 0
        /\ \A b \in Range(storeOp.list) :
              (b.enabled /\ b.name \notin storeOp.failed) =>
                 /\ RecordPermissions(b) \subseteq pmGranted[b.name]
                 /\ \E h \in Range(rtPlugins) : h.name = b.name /\ h.enabled

\* init over the list A, B, both enabled: A failed to load and B is enabled
C5_Witness ==
    /\ storeOp.op = "initDone"
    /\ storeOp.failed = {"A"}
    /\ Len(storeOp.list) = 2
    /\ storeOp.list[1].name = "A"
    /\ storeOp.list[2].enabled
    /\ \E h \in Range(rtPlugins) : h.name = "B" /\ h.enabled
    /\ Cardinality(FailuresOf("A")) = 1

(***************************************************************************)
(* Claims about the plugin storage                                         *)
(***************************************************************************)
\* C3: a set whose resulting total usage for the plugin would exceed the quota
\* returns false without reaching the backing store, and the value stored
\* under the key is what it was.
C3_QuotaRejectsSet ==
    (storOp.op = "set" /\ storOp.over) =>
        /\ storOp.result = FALSE
        /\ ~storOp.reached
        /\ BackendGet(backend, storOp.plugin, storOp.key) = storOp.prior

(***************************************************************************)
(* Claims about the event bus                                              *)
(***************************************************************************)
\* The tag a registered listener was registered with
RegisteredTag(l) == IF l \in OnceIds THEN FnTag(onceWrappers[l].inner) ELSE FnTag(l)

\* C2: removePluginListeners(N) removes, under every event, exactly the
\* listeners that were registered with owner tag N: none of them remains, and
\* every listener registered with another tag or with no tag is still
\* registered under exactly the events it was registered under before.
C2_RemovesExactlyTagged ==
    [][busOp'.op = "removePluginListeners" =>
        \A e \in Events, l \in Fns \cup OnceIds :
            Contains(ListenersOf(listeners', e), l) <=>
                (Contains(ListenersOf(listeners, e), l) /\ RegisteredTag(l) # busOp'.plugin)]_vars

\* The request the last operation issued or settled
SeenRequests ==
    Range(pendingRequests) \cup (IF reqOp.op = "settled" THEN {reqOp.request} ELSE {})

\* C10: a request made while no handler was registered for its name is rejected
\* with the no-handler error; otherwise the handler called is the one last
\* registered for the name (a re-registration replaces the earlier handler),
\* and the request resolves with that handler's result or rejects with its
\* rejection.
C10_RequestUsesLastHandler ==
    \A r \in SeenRequests :
        IF r.expected = None
        THEN /\ r.call.called = None
             /\ r.call.outcome = [kind |-> "rejected", error |-> NoHandlerError(r.name)]
        ELSE /\ r.call.called = r.expected
             /\ r.call.outcome = HandlerOutcome(r.expected, r.data)

\* C10 witness: a request settled with the result of a handler that had
\* replaced an earlier, different handler of the same name
C10_Witness ==
    /\ reqOp.op = "settled"
    /\ reqOp.request.replaced # None
    /\ reqOp.request.replaced # reqOp.request.expected
    /\ reqOp.request.call.called = reqOp.request.expected
    /\ reqOp.request.call.outcome.kind = "resolved"

(***************************************************************************)
(* Claims about the marketplace cache                                      *)
(***************************************************************************)
\* C11: a get of a url whose entry was inserted at time T returns that entry's
\* data when it reads before T + CACHE_TTL, and returns null and drops the entry
\* when it reads after T + CACHE_TTL; has answers true and false likewise; what
\* get returns is never an expired entry.
C11_TtlDecidesHitOrMiss ==
    (cacheOp.op \in {"get", "has"} /\ cacheOp.entry # <<>>) =>
        LET e == cacheOp.entry[1]
            hit == IF cacheOp.op = "get" THEN cacheOp.result = e.data
                   ELSE cacheOp.result = TRUE
            miss == IF cacheOp.op = "get" THEN cacheOp.result = Null
                    ELSE cacheOp.result = FALSE
        IN /\ cacheOp.time < e.timestamp + CACHE_TTL => hit
           /\ cacheOp.time > e.timestamp + CACHE_TTL =>
                 miss /\ CacheIndex(cache, cacheOp.url) = 0
           /\ hit \/ miss
           /\ hit => cacheOp.time <= e.timestamp + CACHE_TTL

\* a get read an entry after its time to live and answered null
C11_Witness ==
    /\ cacheOp.op = "get"
    /\ cacheOp.entry # <<>>
    /\ cacheOp.time > cacheOp.entry[1].timestamp + CACHE_TTL
    /\ cacheOp.result = Null

\* the entries of the earlier cache that the later one no longer holds
Evicted(before, after) ==
    {i \in 1..Len(before) : CacheIndex(after, before[i].url) = 0}

\* C12: a set of a url the cache does not hold, made while the cache holds
\* MAX_CACHE_SIZE entries, evicts exactly one entry, and no entry it keeps is
\* older than the one it evicts.
C12_EvictsExactlyTheOldest ==
    (/\ cacheOp.op = "set"
     /\ CacheIndex(cacheOp.before, cacheOp.url) = 0
     /\ Len(cacheOp.before) = MAX_CACHE_SIZE)
    => /\ Cardinality(Evicted(cacheOp.before, cache)) = 1
       /\ \A i \in Evicted(cacheOp.before, cache) : \A j \in 1..Len(cacheOp.before) :
             cacheOp.before[i].timestamp <= cacheOp.before[j].timestamp

\* C13: the cache never holds more than MAX_CACHE_SIZE entries.
C13_SizeBounded == Len(cache) <= MAX_CACHE_SIZE

\* a call whose request did not bring an ok response with a valid manifest
FetchFailed == cacheOp.op = "fetchSettled" /\ SettleResult(cacheOp, cacheOp.response) = Null

\* C14 as stated: after a fetchCommunityPlugin(url) that failed, timed out or
\* got an invalid manifest, the next call for the same url finds nothing in the
\* cache and performs a new network fetch.
C14_NextCallFetchesAgain ==
    FetchFailed => CacheGetMap(cache, cacheOp.manifestUrl, now).result = Null

\* C14 amended: every cache entry holds a plugin built from an ok response with
\* a schema-valid manifest fetched from the entry's url; a call that failed,
\* timed out or got an invalid manifest returns null and stores nothing, so the
\* cache answers the next call for the url only from an entry that another
\* call for the same manifest url stored; a call answered from the cache
\* returns such an entry's data.
C14_FailuresNeverCached ==
    /\ \A i \in 1..Len(cache) :
          /\ cache[i].data[1] = "plugin"
          /\ cache[i].data[2] = cache[i].url
          /\ ValidateManifest(cache[i].data[4])
    /\ FetchFailed => /\ cacheOp.result = Null
                      /\ cache = cacheOp.before
    /\ (cacheOp.op = "fetchSettled" /\ cacheOp.response[1] = "ok"
          /\ ~ValidateManifest(cacheOp.response[2])) => FetchFailed
    /\ cacheOp.op = "fetchCached" =>
          /\ cacheOp.entry # <<>>
          /\ cacheOp.result = cacheOp.entry[1].data
          /\ ValidateManifest(cacheOp.result[4])

\* a call got an invalid manifest while the cache held another url's entry
C14_Witness ==
    /\ cacheOp.op = "fetchSettled"
    /\ cacheOp.response = <<"ok", InvalidManifest>>
    /\ cacheOp.result = Null
    /\ cache # <<>>
    /\ CacheIndex(cache, cacheOp.manifestUrl) = 0

(***************************************************************************)
(* Claims about emit and once                                              *)
(***************************************************************************)
\* the listeners the emit of busOp invoked at the given nesting depth, in order
InvokedAt(depth) ==
    LET atDepth(entry) == entry.depth = depth
        entries == SelectSeq(busOp.log, atDepth)
    IN [i \in 1..Len(entries) |-> entries[i].via]

C16_OnceAtMostOnce ==
    busOp.op = "emit" =>
        \A w \in OnceIds :
            LET invoked == {i \in 1..Len(busOp.log) : busOp.log[i].via = w}
            IN /\ Cardinality(invoked) <= 1
               /\ \A i \in invoked :
                     /\ ~busOp.log[i].registered
                     /\ ~MapHas(onceWrappers, w)
                     /\ \A e \in Events : ~Contains(ListenersOf(listeners, e), w)

\* a once-registered listener re-emitted the event from inside its invocation
C16_Witness ==
    /\ busOp.op = "emit"
    /\ \E i \in 1..Len(busOp.log) :
          /\ busOp.log[i].via \in OnceIds
          /\ Reemits(busOp.log[i].called)
          /\ busOp.log[i].depth = 0
          /\ i < Len(busOp.log)
          /\ busOp.log[i + 1].depth = 1

(***************************************************************************)
(* Claims about the slot lists and their rendering                         *)
(***************************************************************************)
\* C17: every slot's content list holds at most one entry per pluginName, and
\* after addContent(slot, content) the one entry of the plugin in that slot is
\* the content just added, also when the plugin had an entry there before.
C17_OneEntryPerPlugin ==
    /\ \A s \in DOMAIN slots : \A i, j \in 1..Len(slots[s]) :
          slots[s][i].pluginName = slots[s][j].pluginName => i = j
    /\ slotOp.op = "addContent" =>
          LET mine == IndicesOf(GetSlotContent(slots, slotOp.slot), slotOp.plugin)
          IN /\ Cardinality(mine) = 1
             /\ \A i \in mine : slots[slotOp.slot][i] = slotOp.content

\* an addContent for a plugin that already had an entry in the slot, next to
\* another plugin's entry
C17_Witness ==
    /\ slotOp.op = "addContent"
    /\ slotOp.present
    /\ Len(GetSlotContent(slots, slotOp.slot)) = 2

\* C18: every slot's content list is ordered by non-decreasing priority.
C18_SortedByPriority ==
    \A s \in DOMAIN slots : \A i, j \in 1..Len(slots[s]) :
        i < j => slots[s][i].priority <= slots[s][j].priority

\* an addContent placed its entry in front of an entry with a higher priority
\* number that was in the list before
C18_Witness ==
    /\ slotOp.op = "addContent"
    /\ ~slotOp.present
    /\ LET list == GetSlotContent(slots, slotOp.slot)
       IN /\ Len(list) = 2
          /\ list[1] = slotOp.content
          /\ list[1].priority < list[2].priority

\* C19: registerContainer renders the slot's content list as it stands, after
\* the style element, whether the content arrived before the first
\* registration or was retained across an unregisterContainer; neither
\* registerContainer nor unregisterContainer changes the content list.
C19_RegisterRendersPending ==
    /\ slotOp.op = "registerContainer" =>
          /\ GetSlotContent(slots, slotOp.slot) = slotOp.contents
          /\ shadow[slotOp.slot] = <<StyleElement>> \o Elements(slotOp.contents)
    /\ slotOp.op = "unregisterContainer" =>
          GetSlotContent(slots, slotOp.slot) = slotOp.contents

\* a container registered again rendered content that was added while the slot
\* had no container
C19_Witness ==
    /\ slotOp.op = "registerContainer"
    /\ slotOp.again
    /\ slotOp.contents # << >>
    /\ shadow[slotOp.slot] = <<StyleElement>> \o Elements(slotOp.contents)

\* C20: for every slot with a registered container, the children of the
\* container's shadow root are the style element followed by the elements of
\* the slot's content list in order.
C20_RenderedIsContentList ==
    \A s \in containers :
        shadow[s] = <<StyleElement>> \o Elements(GetSlotContent(slots, s))

\* C21: once a plugin has called addContent for playerbar:menu and for
\* mobile:home, in either order, mobile:home holds both the content it added
\* there directly and the clone mirrored from its playerbar:menu content.
C21_DirectAndCloneCoexist ==
    (/\ slotOp.op = "addContent"
     /\ \/ /\ slotOp.slot = "mobile:home"
           /\ IndicesOf(GetSlotContent(slots, "playerbar:menu"), slotOp.plugin) # {}
        \/ /\ slotOp.slot = "playerbar:menu"
           /\ slotOp.direct)
    => LET home == GetSlotContent(slots, "mobile:home")
       IN /\ \E i \in IndicesOf(home, slotOp.plugin) : ~IsClone(home[i].element)
          /\ \E i \in IndicesOf(home, slotOp.plugin) : IsClone(home[i].element)

(***************************************************************************)
(* Claims about setBatch, importData and the isolation of the storage      *)
(***************************************************************************)
\* a setBatch or importData call has returned
BatchReturned == storOp.op \in {"setBatch", "importData"}

\* C22: setBatch returns counts whose sum is the number of entries, every entry
\* having been attempted, and success is the number of its writes that reached
\* the backing store.
C22_BatchCountsEveryEntry ==
    BatchReturned =>
        /\ storOp.result.success + storOp.result.failed = Len(storOp.data)
        /\ storOp.result.success = storOp.written

\* a setBatch whose first entry failed and whose second was written
C22_Witness ==
    /\ storOp.op = "setBatch"
    /\ storOp.result = [success |-> 1, failed |-> 1]
    /\ BackendGet(backend, storOp.plugin, "kk") = None
    /\ BackendGet(backend, storOp.plugin, "k") = Serialize(Str("v"))

\* C23: when importData(data, true) returns, no key the plugin had stored when
\* it was called and that is not in data is stored any more.
C23_ReplaceDropsPriorKeys ==
    (storOp.op = "importData" /\ storOp.replace) =>
        \A k \in (DOMAIN storOp.prior) \ DataKeys(storOp.data) :
            k \notin BackendKeys(backend, storOp.plugin)

\* what get, has, keys and exportData return on the storage of pluginName
StorageView(be, pluginName) ==
    [get |-> [k \in StorageKeys |-> GetValue(be, pluginName, k, TRUE)],
     has |-> [k \in StorageKeys |-> GetValue(be, pluginName, k, TRUE) # Null],
     keys |-> BackendKeys(be, pluginName),
     exportData |-> [k \in BackendKeys(be, pluginName) |->
                        GetValue(be, pluginName, k, TRUE)]]

\* C24: a step of an operation on the storage of one plugin leaves what get,
\* has, keys and exportData return on the storage of every other plugin as it
\* was.
C24_StorageIsolated ==
    [][\A other \in StoragePlugins :
          storOp'.plugin # other =>
              StorageView(backend', other) = StorageView(backend, other)]_vars

\* plugin A cleared keys of its own while plugin B holds a value under a key
\* name A had used
C24_Witness ==
    /\ storOp.op = "clear"
    /\ storOp.plugin = "A"
    /\ storOp.result > 0
    /\ BackendGet(backend, "B", "k") = Serialize(Str("v"))
    /\ BackendGet(backend, "A", "k") = None

(***************************************************************************)
(* The roster of failed plugins, updates and uninstall                     *)
(***************************************************************************)
RecordsOf(fp, name) == SeqFilterIn(fp, {f \in Range(fp) : f.name = name})

HasRecord(fp, name, err) ==
    \E k \in 1..Len(fp) : fp[k].name = name /\ fp[k].error = ErrorMessage(err)

\* C25: when the load of plugin P fails inside enablePlugin, installPlugin,
\* reinstallPlugin, retryFailedPlugin or updatePlugin, the roster holds a
\* record of P with that error when the operation returns
C25_FailureIsRecorded ==
    (storeOp.op = "returned" /\ storeOp.failure = "load")
    => HasRecord(failedPlugins, storeOp.name, LoadError)

\* C26: the roster holds at most one record per plugin name, a load of P that
\* succeeds leaves no record of P, and the handler of a load of P leaves the
\* records of every other plugin as they were
C26_OneRecordPerName ==
    /\ \A n \in PluginNames : Len(RecordsOf(failedPlugins, n)) <= 1
    /\ loadOp.name # None
       => /\ ~loadOp.failed => RecordsOf(loadOp.after, loadOp.name) = <<>>
          /\ Len(RecordsOf(loadOp.after, loadOp.name)) <= 1
          /\ \A n \in PluginNames \ {loadOp.name} :
                RecordsOf(loadOp.after, n) = RecordsOf(loadOp.before, n)

C26_Witness ==
    /\ loadOp.name = "A"
    /\ ~loadOp.failed
    /\ RecordsOf(loadOp.before, "A") # <<>>
    /\ RecordsOf(loadOp.before, "B") # <<>>
    /\ RecordsOf(loadOp.after, "B") # <<>>
    /\ RecordsOf(failedPlugins, "A") = <<>>

\* C27: when updatePlugin(P) fails, the roster holds a record of P and the
\* critical error of the store is not set
C27_UpdateFailureIsPerPlugin ==
    (storeOp.op = "returned" /\ storeOp.of = "update" /\ storeOp.failure # "none")
    => /\ FindPlugin(failedPlugins, storeOp.name) # 0
       /\ error = None

\* C28: when get_plugin_dir or list_plugins fails during init, nothing is
\* granted, loaded or enabled, no update check is in flight or was made, the
\* error is the one message of init and loading is false
C28_InitHaltsOnCommandFailure ==
    storeOp.op = "initFailed"
    => /\ error # None
       /\ error = "Failed to initialize plugin system"
       /\ loading = FALSE
       /\ rtPlugins = <<>>
       /\ \A n \in PluginNames : pmGranted[n] = {}
       /\ tasks = <<>>
       /\ pendingUpdates = <<>>

C28_Witness ==
    /\ storeOp.op = "initFailed"
    /\ storeOp.at = "list_plugins"
    /\ \E k \in 1..Len(backendPlugins) : backendPlugins[k].enabled
    /\ runtime # None
    /\ ~loading

\* C29: after uninstallPlugin(P) returned true, P is absent from installed,
\* from the roster and from pendingUpdates, and the permission cache of P was
\* cleared before uninstall_plugin was issued when the store had a runtime
C29_UninstallDropsEverything ==
    (storeOp.op = "returned" /\ storeOp.of = "uninstall" /\ storeOp.failure = "none")
    => /\ FindPlugin(installed, storeOp.name) = 0
       /\ FindPlugin(failedPlugins, storeOp.name) = 0
       /\ ~Contains(pendingUpdates, storeOp.name)
       /\ storeOp.via \in {"clearCache", "noRuntime"}

C31_ManagerReflectsGrantAndRevoke ==
    (/\ storeOp.op = "returned"
     /\ storeOp.of \in {"grant", "revoke"}
     /\ storeOp.failure = "none"
     /\ GetPlugin(rtPlugins, storeOp.name))
    => \A perm \in Range(storeOp.permissions) :
          HasPermission(pmGranted, storeOp.name, perm) = (storeOp.of = "grant")

\* the call in flight at position i is the one that takes this step
Acted(i) ==
    \/ tasks' = ReplaceTask(i, <<>>)
    \/ Len(tasks') = Len(tasks) /\ tasks'[i] # tasks[i]

\* the steps of enablePlugin, of disablePlugin and after runtime.loadPlugin
EnablesOrLoads(t) ==
    \/ t.pc \in {"enable_command", "enable_load", "load"}
    \/ t.op = "disable"

GrantedList(list) ==
    [k \in 1..Len(list) |-> <<list[k].name, list[k].granted_permissions>>]

\* C33: a step of enablePlugin or disablePlugin, and the step a handler takes
\* when runtime.loadPlugin has settled, leave granted_permissions of every
\* entry of installed as it was
C33_EnableDisableLoadKeepGrants ==
    [][\A i \in 1..Len(tasks) :
          (Acted(i) /\ EnablesOrLoads(tasks[i]))
          => GrantedList(installed') = GrantedList(installed)]_vars

C33_Witness ==
    /\ storeOp.op = "returned"
    /\ storeOp.of = "enable"
    /\ storeOp.name = "A"
    /\ storeOp.failure = "none"
    /\ \E k \in 1..Len(rtPlugins) : rtPlugins[k].name = "A" /\ rtPlugins[k].enabled
    /\ "ui:inject" \in pmGranted["A"]
    /\ \E k \in 1..Len(installed) :
          /\ installed[k].name = "A"
          /\ installed[k].enabled
          /\ installed[k].granted_permissions = <<"storage:local">>

\* the entry whose load the call at position i awaits
AwaitedLoad(t) == IF t.op = "init" THEN t.list[t.idx] ELSE t.info[1]

\* C34: while init, enablePlugin or updatePlugin awaits the load of P, the
\* runtime has been granted every permission of P's stored grants and every
\* permission its manifest declares, a revoked one that is declared included
C34_UnionGrantedBeforeLoad ==
    \A i \in 1..Len(tasks) :
        tasks[i].pc \in {"load", "enable_load"}
        => LET plugin == AwaitedLoad(tasks[i])
           IN (Range(plugin.granted_permissions) \cup Range(plugin.manifest.permissions))
                 \subseteq pmGranted[plugin.name]

C34_Witness ==
    \E i \in 1..Len(tasks) :
        /\ tasks[i].pc \in {"load", "enable_load"}
        /\ AwaitedLoad(tasks[i]).name = "B"
        /\ AwaitedLoad(tasks[i]).granted_permissions = <<>>
        /\ "storage:local" \in pmGranted["B"]

\* C36: after a successful updatePlugin(P) of a plugin that was loaded but
\* disabled, every instance of P the runtime holds was loaded from the manifest
\* update_plugin returned
C36_NoStaleInstanceAfterUpdate ==
    (/\ storeOp.op = "returned"
     /\ storeOp.of = "update"
     /\ storeOp.failure = "none"
     /\ \E j \in 1..Len(installed) :
           installed[j].name = storeOp.name /\ ~installed[j].enabled)
    => \A k \in 1..Len(rtPlugins) :
          rtPlugins[k].name = storeOp.name
          => \E j \in 1..Len(installed) :
                /\ installed[j].name = storeOp.name
                /\ installed[j].manifest.version = rtPlugins[k].version

(***************************************************************************)
(* reinstallPlugin                                                         *)
(***************************************************************************)
ReinstallReturnedFalse ==
    storeOp.op = "returned" /\ storeOp.of = "reinstall" /\ storeOp.failure = "reinstall"

\* C35 as stated: when reinstallPlugin(P) has failed at its uninstall or install
\* step and returns, installed is the list of the backing store
C35_InstalledIsBackingStore ==
    ReinstallReturnedFalse => installed = backendPlugins

\* C35 amended: the catch sets the error and loading to false, and at the
\* return installed is the list list_plugins returned; when list_plugins
\* failed as well, installed is what it was
C35_RefreshedWhenListSucceeds ==
    /\ storeOp.op = "reinstallFailed"
       => /\ ~loading
          /\ error = "Failed to reinstall " \o storeOp.name
    /\ ReinstallReturnedFalse
       => installed = (IF storeOp.refreshed THEN backendPlugins ELSE storeOp.before)

C35_Witness ==
    /\ ReinstallReturnedFalse
    /\ storeOp.refreshed
    /\ FindPlugin(storeOp.before, storeOp.name) # 0
    /\ FindPlugin(installed, storeOp.name) = 0
    /\ installed = backendPlugins

EntriesNamed(list, name) == SeqFilterIn(list, {x \in Range(list) : x.name = name})

\* C37: the steps reinstallPlugin(P) takes when uninstall_plugin and
\* install_plugin return leave the entries of every other plugin in installed
\* as the other calls made them
C37_ReinstallKeepsOtherEntries ==
    [][\A i \in 1..Len(tasks) :
          (/\ Acted(i)
           /\ tasks[i].op = "reinstall"
           /\ tasks[i].pc \in {"uninstall", "install"})
          => \A q \in PluginNames \ {tasks[i].name} :
                EntriesNamed(installed', q) = EntriesNamed(installed, q)]_vars

(***************************************************************************)
(* EventEmitter: the ownership map                                         *)
(***************************************************************************)
\* C38: every listener with an owner entry is registered under some event, so
\* getPluginListenerCount(N) is 0 right after removePluginListeners(N) and
\* right after removeAllListeners()
C38_OwnersAreRegistered ==
    /\ \A l \in DOMAIN listenerOwners :
          \E e \in DOMAIN listeners : Contains(listeners[e], l)
    /\ busOp.op = "removePluginListeners"
       => GetPluginListenerCount(listenerOwners, busOp.plugin) = 0
    /\ (busOp.op = "removeAllListeners" /\ busOp.event = None)
       => \A p \in PluginTags : GetPluginListenerCount(listenerOwners, p) = 0

C38_Witness ==
    /\ busOp.op = "removePluginListeners"
    /\ busOp.plugin = "A"
    /\ busOp.removed = 2
    /\ GetPluginListenerCount(listenerOwners, "A") = 0
    /\ GetPluginListenerCount(listenerOwners, "B") = 1

(***************************************************************************)
(* Slot content of plugins whose names overlap                             *)
(***************************************************************************)
EntriesOfPlugin(sl, slotName, pluginName) ==
    SelectSeq(GetSlotContent(sl, slotName), LAMBDA c : c.pluginName = pluginName)

\* C39: removePluginContent(P) and removeContent(slot, P) leave the entries and
\* the mirror clones of every other plugin as they were, in every slot
C39_RemovalKeepsOtherPlugins ==
    [][slotOp'.op \in {"removeContent", "removePluginContent"}
       => \A s \in SlotNames, q \in NamePlugins \ {slotOp'.plugin} :
             EntriesOfPlugin(slots', s, q) = EntriesOfPlugin(slots, s, q)]_vars


\* a fetchLyricsForTrack call that a later call has superseded settles one of its awaits
SettlesSuperseded(f) ==
    /\ f \in lyricsFetches
    /\ f \notin lyricsFetches'
    /\ f.pc \in {"cache", "api"}
    /\ f.fetchId < currentFetchId

\* C32: when a fetch that a later fetchLyricsForTrack call has superseded settles
\* its cache load or its API fetch, with any outcome, the step writes nothing to
\* lyricsData, lyricsError or lyricsLoading.
C32_SupersededFetchWritesNothing ==
    [][\A f \in FetchRecords :
          SettlesSuperseded(f)
             => /\ lyricsData' = lyricsData
                /\ lyricsError' = lyricsError
                /\ lyricsLoading' = lyricsLoading]_vars

\* the fetch for T2 delivered first, then the superseded fetch for T1 found lyrics
C32_Witness ==
    /\ lyricsOp.op = "apiSettled"
    /\ lyricsOp.track = "T1"
    /\ lyricsOp.outcome = "found"
    /\ ~lyricsOp.current
    /\ currentTrack = "T2"
    /\ lyricsData = [track |-> "T2", source |-> "api"]
    /\ ~lyricsLoading
    /\ lyricsError = None

\* C40: while the subscription is held and the current track stays null,
\* lyricsData stays null, whatever settles in the meantime.
C40_NullTrackKeepsNoLyrics ==
    [][(/\ unsubscribe /\ unsubscribe'
        /\ currentTrack = None /\ currentTrack' = None
        /\ lyricsData = NoLyrics)
       => lyricsData' = NoLyrics]_vars

====
